---- MODULE Spec2Model ----
(***************************************************************************)
(* Verification models of the example kernel modules of the Linux Driver   *)
(* Development Guide.  Every example is an independent module, so each has  *)
(* its own variables, its own initial condition and its own next-state      *)
(* relation; a specification SpecXxx runs one example and leaves the        *)
(* variables of the others untouched.                                       *)
(***************************************************************************)
EXTENDS Integers, Sequences, FiniteSets, TLC

(***************************************************************************)
(* The state of every example, and for each example the variables of the   *)
(* others, which none of its steps changes.                                 *)
(***************************************************************************)
\* threaded_irq_demo.c: struct irq_demo_device and the /proc callers.
VARIABLES pending_irq, hw_data, data_mutex, data_buffer, data_head,
          data_count, hardirq_count, thread_count, spurious_count,
          running, interval_ms, timer_pending,
          stats_pc, data_pc, ctl_pc, stats_out, data_out

irqVars == <<pending_irq, hw_data, data_mutex, data_buffer, data_head,
             data_count, hardirq_count, thread_count, spurious_count,
             running, interval_ms, timer_pending,
             stats_pc, data_pc, ctl_pc, stats_out, data_out>>

\* ramdisk_demo.c: struct ramdisk_dev and the last request.
VARIABLES rd_data, rd_size, rd_req, rd_status, rd_copied, rd_out

rdVars == <<rd_data, rd_size, rd_req, rd_status, rd_copied, rd_out>>

\* export-symbol/mylib.c, export-symbol/myuser.c and module-params/params.c:
\* which of the three modules is loaded and their file-scope variables.
VARIABLES mylib_loaded, mylib_counter, myuser_loaded, iterations,
          params_loaded, validated_param

mylibVars == <<mylib_loaded, mylib_counter>>
myuserVars == <<myuser_loaded, iterations>>
paramsVars == <<params_loaded, validated_param>>
modVars == <<mylibVars, myuserVars, paramsVars>>

\* ioctl_device.c: struct ioctl_device (io_name[i + 1] is name[i]), the
\* position of the one open file, and what the last call returned and
\* copied to user space.  called_reads, called_writes and called_ioctls
\* count the calls the user program has made since the last IOCTL_RESET
\* (or since the module was loaded): reads, writes and the ioctls that
\* passed the two checks of the command.
VARIABLES io_speed, io_mode, io_name, io_value, io_read_count,
          io_write_count, io_ioctl_count, io_last_error, io_fpos,
          io_ret, io_out, called_reads, called_writes, called_ioctls

ioDevVars == <<io_speed, io_mode, io_name, io_value, io_read_count,
               io_write_count, io_ioctl_count, io_last_error>>
ioVars == <<ioDevVars, io_fpos, io_ret, io_out,
            called_reads, called_writes, called_ioctls>>

\* simple_char.c: struct simple_device (sc_buffer[i + 1] is buffer[i]), the
\* position of the one open file, and what the last call returned and
\* copied to user space.  sc_written[i + 1] is the byte the user program
\* last wrote at offset i with a write that returned having covered it,
\* -1 when there is none or a failed write has touched the offset since.
VARIABLES sc_buffer, sc_size, sc_fpos, sc_ret, sc_out, sc_written

scVars == <<sc_buffer, sc_size, sc_fpos, sc_ret, sc_out, sc_written>>

\* kunit_example_test.c: the function last called with its arguments, what
\* it returned, and the outcome of each test case of the suite.
VARIABLES ku_call, ku_result, ku_tests

kuVars == <<ku_call, ku_result, ku_tests>>

\* usb_demo.c: the device structure's connected flag and io_mutex, the
\* allocations disconnect frees, the file opened on the misc device, the
\* position of the one read/write caller and of disconnect, the call's
\* return value, and the freed allocations the call in progress has touched.
VARIABLES usb_connected, usb_io_mutex, usb_mem, usb_registered, usb_file,
          usb_rw, usb_disc_pc, usb_ret, usb_freed_access

usbVars == <<usb_connected, usb_io_mutex, usb_mem, usb_registered, usb_file,
             usb_rw, usb_disc_pc, usb_ret, usb_freed_access>>

\* vnet_demo.c: struct vnet_priv's ring and counters, the device's
\* rx_dropped, the transmit queue's state, the NAPI instance's state bits,
\* the position of vnet_poll and of vnet_stop, and the history: the number
\* of packets passed to vnet_start_xmit, those queued on the ring, those
\* handed to the stack and those freed, each in the order it happened.
VARIABLES vn_rx_ring, vn_rx_head, vn_rx_tail, vn_tx_packets, vn_tx_bytes,
          vn_rx_packets, vn_rx_bytes, vn_rx_dropped, vn_queue, vn_napi,
          vn_poll, vn_sent, vn_queued, vn_delivered, vn_freed

vnetVars == <<vn_rx_ring, vn_rx_head, vn_rx_tail, vn_tx_packets, vn_tx_bytes,
              vn_rx_packets, vn_rx_bytes, vn_rx_dropped, vn_queue, vn_napi,
              vn_poll, vn_sent, vn_queued, vn_delivered, vn_freed>>

\* watchdog_demo.c: the WDOG_ACTIVE bit and the timeout of wdd, last_ping,
\* expired and the timer of struct demo_wdt, and jiffies; and the history:
\* the time since the driver was probed, the time of the last start, ping
\* or set_timeout, and whether every ping since the start came less than
\* the timeout after the one before.  Times are in jiffies.
VARIABLES wd_active, wd_timeout, wd_last_ping, wd_expired, wd_timer,
          wd_jiffies, wd_now, wd_kick, wd_on_time

wdVars == <<wd_active, wd_timeout, wd_last_ping, wd_expired, wd_timer,
            wd_jiffies, wd_now, wd_kick, wd_on_time>>

\* timer_demo.c: timer_running, timer_fire_count and whether poll_timer is
\* pending; the position of the timer callback, of each writer of
\* /proc/timer_demo and of timer_demo_exit; and the history: whether a
\* stop_timer has returned with no start command entered since, and the
\* fire count when it returned.
VARIABLES tm_running, tm_fire_count, tm_pending, tm_cb, tm_writer, tm_exit,
          tm_quiet, tm_count_at_stop

tmVars == <<tm_running, tm_fire_count, tm_pending, tm_cb, tm_writer, tm_exit,
            tm_quiet, tm_count_at_stop>>

\* kthread_demo.c: event_pending, poll_count, event_count and
\* simulated_sensor; for each of the two threads its position, its task
\* state, its should-stop flag and whether its timed sleep has time left;
\* the position of kthread_demo_exit; and the numbers of events triggered
\* and of poll timeouts so far.
VARIABLES kt_event_pending, kt_poll_count, kt_event_count, kt_sensor, kt_pc,
          kt_state, kt_should_stop, kt_time_left, kt_exit, kt_triggered,
          kt_timeouts

ktVars == <<kt_event_pending, kt_poll_count, kt_event_count, kt_sensor, kt_pc,
            kt_state, kt_should_stop, kt_time_left, kt_exit, kt_triggered,
            kt_timeouts>>

\* pm_demo.c: powered, access_count and saved_data of struct pm_demo_dev;
\* the device's runtime-PM usage count, status and enable state; the system
\* sleep state; whether the driver is bound; each sysfs caller's position
\* with the gets and puts its call has made; and the last touch of
\* access_count or saved_data, with who made it and the power and usage
\* count at that moment.
VARIABLES pm_powered, pm_access_count, pm_saved_data, pm_usage, pm_status,
          pm_enabled, pm_sleep, pm_bound, pm_caller, pm_touch

pmVars == <<pm_powered, pm_access_count, pm_saved_data, pm_usage, pm_status,
            pm_enabled, pm_sleep, pm_bound, pm_caller, pm_touch>>

\* rtc_demo.c: base_time, base_ktime, alarm_time, alarm_enabled and
\* alarm_pending of struct demo_rtc; alarm_timer; the clock, in jiffies,
\* behind both ktime_get_real() and jiffies; the time last returned by
\* read_time; whether the alarm in force was enabled by set_alarm for a
\* time later than the RTC time; and the RTC time at which the alarm
\* callback set alarm_pending (-1: it has not).
VARIABLES rtc_base_time, rtc_base_ktime, rtc_alarm_time, rtc_alarm_enabled,
          rtc_alarm_pending, rtc_alarm_timer, rtc_clock, rtc_tm,
          rtc_set_ahead, rtc_fired_at

rtcVars == <<rtc_base_time, rtc_base_ktime, rtc_alarm_time,
             rtc_alarm_enabled, rtc_alarm_pending, rtc_alarm_timer,
             rtc_clock, rtc_tm, rtc_set_ahead, rtc_fired_at>>

\* spi_flash_demo.c: flash->buffer; the write in progress (its address,
\* length and the bytes written so far), where it stands and what it
\* returned; the number of writes made; the buffer as it was when the write
\* began; and the chunks demo_flash_program_page has copied for it.
VARIABLES fl_buffer, fl_addr, fl_len, fl_written, fl_pc, fl_ret, fl_calls,
          fl_before, fl_chunks

flVars == <<fl_buffer, fl_addr, fl_len, fl_written, fl_pc, fl_ret, fl_calls,
            fl_before, fl_chunks>>

vars == <<irqVars, rdVars, modVars, ioVars, scVars, kuVars, usbVars,
          vnetVars, wdVars, tmVars, ktVars, pmVars, rtcVars, flVars>>

irqOthers == <<rdVars, modVars, ioVars, scVars, kuVars, usbVars, vnetVars,
               wdVars, tmVars, ktVars, pmVars, rtcVars, flVars>>
rdOthers == <<irqVars, modVars, ioVars, scVars, kuVars, usbVars, vnetVars,
              wdVars, tmVars, ktVars, pmVars, rtcVars, flVars>>
modOthers == <<irqVars, rdVars, ioVars, scVars, kuVars, usbVars, vnetVars,
               wdVars, tmVars, ktVars, pmVars, rtcVars, flVars>>
ioOthers == <<irqVars, rdVars, modVars, scVars, kuVars, usbVars, vnetVars,
              wdVars, tmVars, ktVars, pmVars, rtcVars, flVars>>
scOthers == <<irqVars, rdVars, modVars, ioVars, kuVars, usbVars, vnetVars,
              wdVars, tmVars, ktVars, pmVars, rtcVars, flVars>>
kuOthers == <<irqVars, rdVars, modVars, ioVars, scVars, usbVars, vnetVars,
              wdVars, tmVars, ktVars, pmVars, rtcVars, flVars>>
usbOthers == <<irqVars, rdVars, modVars, ioVars, scVars, kuVars, vnetVars,
               wdVars, tmVars, ktVars, pmVars, rtcVars, flVars>>
vnetOthers == <<irqVars, rdVars, modVars, ioVars, scVars, kuVars, usbVars,
                wdVars, tmVars, ktVars, pmVars, rtcVars, flVars>>
wdOthers == <<irqVars, rdVars, modVars, ioVars, scVars, kuVars, usbVars,
              vnetVars, tmVars, ktVars, pmVars, rtcVars, flVars>>
tmOthers == <<irqVars, rdVars, modVars, ioVars, scVars, kuVars, usbVars,
              vnetVars, wdVars, ktVars, pmVars, rtcVars, flVars>>
ktOthers == <<irqVars, rdVars, modVars, ioVars, scVars, kuVars, usbVars,
              vnetVars, wdVars, tmVars, pmVars, rtcVars, flVars>>
pmOthers == <<irqVars, rdVars, modVars, ioVars, scVars, kuVars, usbVars,
              vnetVars, wdVars, tmVars, ktVars, rtcVars, flVars>>
rtcOthers == <<irqVars, rdVars, modVars, ioVars, scVars, kuVars, usbVars,
               vnetVars, wdVars, tmVars, ktVars, pmVars, flVars>>
flOthers == <<irqVars, rdVars, modVars, ioVars, scVars, kuVars, usbVars,
              vnetVars, wdVars, tmVars, ktVars, pmVars, rtcVars>>

(***************************************************************************)
(* errno values used by the examples (include/uapi/asm-generic/errno*.h).  *)
(***************************************************************************)
EFAULT == 14
EINVAL == 22
ENOTTY == 25
ENOSPC == 28

\* Smaller of two numbers (the kernel's min()).
Min(a, b) == IF a < b THEN a ELSE b

(***************************************************************************)
(* part7/threaded-irq-demo/threaded_irq_demo.c                             *)
(*                                                                         *)
(* struct irq_demo_device.  The two clock-valued fields (last_irq_time,    *)
(* total_latency_ns) are left out: they are written from ktime_get_ns()    *)
(* and read only to print an average.  timer_pending is the pending bit of *)
(* dev->timer.  data_mutex holds the name of the context that owns the     *)
(* mutex, or "free".  data_buffer[i + 1] is the C array's entry i.         *)
(* stats_pc, data_pc and ctl_pc are the positions of one reader of         *)
(* /proc/.../stats, one reader of /proc/.../data and one writer of         *)
(* /proc/.../control; stats_out and data_out are what the two readers      *)
(* have printed.                                                           *)
(***************************************************************************)
\* #define BUFFER_SIZE 64 of threaded_irq_demo.c
IRQ_BUFFER_SIZE == 64

\* Values get_random_u32() & 0xFFFF is drawn from in the model.
MaxHwData == 1
HwDataValues == 0..MaxHwData

\* Values of the "interval <ms>" command tried in the model (beside 0).
MaxInterval == 2

NoStats == [hardirq |-> 0, thread |-> 0, spurious |-> 0, running |-> FALSE,
            interval |-> 0, data |-> 0]

\* demo_probe: devm_kzalloc zeroes the structure, then the fields are set.
IrqInit ==
    /\ pending_irq = 0
    /\ hw_data = 0
    /\ data_mutex = "free"
    /\ data_buffer = [i \in 1..IRQ_BUFFER_SIZE |-> 0]
    /\ data_head = 0
    /\ data_count = 0
    /\ hardirq_count = 0
    /\ thread_count = 0
    /\ spurious_count = 0
    /\ running = FALSE
    /\ interval_ms = 100
    /\ timer_pending = FALSE
    /\ stats_pc = "idle"
    /\ data_pc = "idle"
    /\ ctl_pc = "idle"
    /\ stats_out = NoStats
    /\ data_out = <<>>

\* trigger_simulated_irq: the timer callback.  It raises the simulated
\* interrupt and re-arms the timer; it calls neither handler.
trigger_simulated_irq ==
    /\ timer_pending
    /\ IF ~running
       THEN /\ timer_pending' = FALSE
            /\ UNCHANGED <<hw_data, pending_irq>>
       ELSE /\ \E d \in HwDataValues : hw_data' = d
            /\ pending_irq' = 1
            /\ timer_pending' = TRUE
    /\ UNCHANGED <<data_mutex, data_buffer, data_head, data_count,
                   hardirq_count, thread_count, spurious_count, running,
                   interval_ms, stats_pc, data_pc, ctl_pc, stats_out, data_out>>
    /\ UNCHANGED irqOthers

\* demo_hardirq: the top half.  demo_probe registers it with no interrupt
\* (the devm_request_threaded_irq call is inside a comment) and the timer
\* callback does not call it, so no specification below takes this step.
demo_hardirq ==
    /\ IF pending_irq = 0
       THEN /\ spurious_count' = spurious_count + 1
            /\ UNCHANGED <<pending_irq, hardirq_count>>
       ELSE /\ pending_irq' = 0
            /\ hardirq_count' = hardirq_count + 1
            /\ UNCHANGED spurious_count
    /\ UNCHANGED <<hw_data, data_mutex, data_buffer, data_head, data_count,
                   thread_count, running, interval_ms, timer_pending,
                   stats_pc, data_pc, ctl_pc, stats_out, data_out>>
    /\ UNCHANGED irqOthers

\* demo_thread_handler: the bottom half, run when demo_hardirq returns
\* IRQ_WAKE_THREAD.  Like demo_hardirq it has no caller.
demo_thread_handler ==
    /\ data_mutex = "free"
    /\ thread_count' = thread_count + 1
    /\ data_buffer' = [data_buffer EXCEPT ![data_head + 1] = hw_data]
    /\ data_head' = (data_head + 1) % IRQ_BUFFER_SIZE
    /\ data_count' = IF data_count < IRQ_BUFFER_SIZE THEN data_count + 1
                     ELSE data_count
    /\ UNCHANGED <<pending_irq, hw_data, data_mutex, hardirq_count,
                   spurious_count, running, interval_ms, timer_pending,
                   stats_pc, data_pc, ctl_pc, stats_out, data_out>>
    /\ UNCHANGED irqOthers

\* stats_show, lines 155-157: the three atomic counters are read.
StatsShowCounters ==
    /\ stats_pc = "idle"
    /\ stats_pc' = "counters"
    /\ stats_out' = [NoStats EXCEPT !.hardirq = hardirq_count,
                                    !.thread = thread_count,
                                    !.spurious = spurious_count]
    /\ UNCHANGED <<pending_irq, hw_data, data_mutex, data_buffer, data_head,
                   data_count, hardirq_count, thread_count, spurious_count,
                   running, interval_ms, timer_pending, data_pc, ctl_pc,
                   data_out>>
    /\ UNCHANGED irqOthers

\* stats_show, lines 165-171: running, interval_ms and data_count are read
\* and printed.  data_mutex is not taken.
StatsShowDataCount ==
    /\ stats_pc = "counters"
    /\ stats_pc' = "idle"
    /\ stats_out' = [stats_out EXCEPT !.running = running,
                                      !.interval = interval_ms,
                                      !.data = data_count]
    /\ UNCHANGED <<pending_irq, hw_data, data_mutex, data_buffer, data_head,
                   data_count, hardirq_count, thread_count, spurious_count,
                   running, interval_ms, timer_pending, data_pc, ctl_pc,
                   data_out>>
    /\ UNCHANGED irqOthers

\* data_show, line 199: mutex_lock.
DataShowLock ==
    /\ data_pc = "idle"
    /\ data_mutex = "free"
    /\ data_mutex' = "data_show"
    /\ data_pc' = "locked"
    /\ UNCHANGED <<pending_irq, hw_data, data_buffer, data_head, data_count,
                   hardirq_count, thread_count, spurious_count, running,
                   interval_ms, timer_pending, stats_pc, ctl_pc, stats_out,
                   data_out>>
    /\ UNCHANGED irqOthers

\* data_show, lines 201-207: the entries are printed oldest first.
DataShowRead ==
    /\ data_pc = "locked"
    /\ data_pc' = "unlock"
    /\ data_out' = [i \in 1..data_count |->
                      data_buffer[((data_head - data_count + (i - 1)
                                    + IRQ_BUFFER_SIZE) % IRQ_BUFFER_SIZE) + 1]]
    /\ UNCHANGED <<pending_irq, hw_data, data_mutex, data_buffer, data_head,
                   data_count, hardirq_count, thread_count, spurious_count,
                   running, interval_ms, timer_pending, stats_pc, ctl_pc,
                   stats_out>>
    /\ UNCHANGED irqOthers

\* data_show, line 209: mutex_unlock.
DataShowUnlock ==
    /\ data_pc = "unlock"
    /\ data_pc' = "idle"
    /\ data_mutex' = "free"
    /\ UNCHANGED <<pending_irq, hw_data, data_buffer, data_head, data_count,
                   hardirq_count, thread_count, spurious_count, running,
                   interval_ms, timer_pending, stats_pc, ctl_pc, stats_out,
                   data_out>>
    /\ UNCHANGED irqOthers

\* control_write "start".
ControlStart ==
    /\ ctl_pc = "idle"
    /\ IF ~running
       THEN running' = TRUE /\ timer_pending' = TRUE
       ELSE UNCHANGED <<running, timer_pending>>
    /\ UNCHANGED <<pending_irq, hw_data, data_mutex, data_buffer, data_head,
                   data_count, hardirq_count, thread_count, spurious_count,
                   interval_ms, stats_pc, data_pc, ctl_pc, stats_out, data_out>>
    /\ UNCHANGED irqOthers

\* control_write "stop": del_timer_sync leaves the timer not pending.
ControlStop ==
    /\ ctl_pc = "idle"
    /\ running' = FALSE
    /\ timer_pending' = FALSE
    /\ UNCHANGED <<pending_irq, hw_data, data_mutex, data_buffer, data_head,
                   data_count, hardirq_count, thread_count, spurious_count,
                   interval_ms, stats_pc, data_pc, ctl_pc, stats_out, data_out>>
    /\ UNCHANGED irqOthers

\* control_write "interval <n>": accepted when n parses and is > 0.
ControlInterval ==
    /\ ctl_pc = "idle"
    /\ \E n \in 0..MaxInterval :
          interval_ms' = IF n > 0 THEN n ELSE interval_ms
    /\ UNCHANGED <<pending_irq, hw_data, data_mutex, data_buffer, data_head,
                   data_count, hardirq_count, thread_count, spurious_count,
                   running, timer_pending, stats_pc, data_pc, ctl_pc,
                   stats_out, data_out>>
    /\ UNCHANGED irqOthers

\* control_write "reset", lines 259-262: the atomic counters are cleared.
ControlResetCounters ==
    /\ ctl_pc = "idle"
    /\ ctl_pc' = "reset_lock"
    /\ hardirq_count' = 0
    /\ thread_count' = 0
    /\ spurious_count' = 0
    /\ UNCHANGED <<pending_irq, hw_data, data_mutex, data_buffer, data_head,
                   data_count, running, interval_ms, timer_pending, stats_pc,
                   data_pc, stats_out, data_out>>
    /\ UNCHANGED irqOthers

\* control_write "reset", line 263: mutex_lock.
ControlResetLock ==
    /\ ctl_pc = "reset_lock"
    /\ data_mutex = "free"
    /\ data_mutex' = "control_write"
    /\ ctl_pc' = "reset_locked"
    /\ UNCHANGED <<pending_irq, hw_data, data_buffer, data_head, data_count,
                   hardirq_count, thread_count, spurious_count, running,
                   interval_ms, timer_pending, stats_pc, data_pc, stats_out,
                   data_out>>
    /\ UNCHANGED irqOthers

\* control_write "reset", lines 264-265: the ring is emptied.
ControlResetRing ==
    /\ ctl_pc = "reset_locked"
    /\ ctl_pc' = "reset_unlock"
    /\ data_count' = 0
    /\ data_head' = 0
    /\ UNCHANGED <<pending_irq, hw_data, data_mutex, data_buffer,
                   hardirq_count, thread_count, spurious_count, running,
                   interval_ms, timer_pending, stats_pc, data_pc, stats_out,
                   data_out>>
    /\ UNCHANGED irqOthers

\* control_write "reset", line 266: mutex_unlock.
ControlResetUnlock ==
    /\ ctl_pc = "reset_unlock"
    /\ ctl_pc' = "idle"
    /\ data_mutex' = "free"
    /\ UNCHANGED <<pending_irq, hw_data, data_buffer, data_head, data_count,
                   hardirq_count, thread_count, spurious_count, running,
                   interval_ms, timer_pending, stats_pc, data_pc, stats_out,
                   data_out>>
    /\ UNCHANGED irqOthers

IrqNext ==
    \/ trigger_simulated_irq
    \/ StatsShowCounters
    \/ StatsShowDataCount
    \/ DataShowLock
    \/ DataShowRead
    \/ DataShowUnlock
    \/ ControlStart
    \/ ControlStop
    \/ ControlInterval
    \/ ControlResetCounters
    \/ ControlResetLock
    \/ ControlResetRing
    \/ ControlResetUnlock

(***************************************************************************)
(* part13/ramdisk/ramdisk_demo.c                                           *)
(*                                                                         *)
(* struct ramdisk_dev: rd_data is the backing memory (dev->data), with     *)
(* rd_data[o + 1] the byte at offset o, and rd_size is dev->size.  rd_req is the  *)
(* request last handed to ramdisk_queue_rq, rd_status the status it was    *)
(* ended with, rd_copied the device offsets its memcpy calls touched and   *)
(* rd_out the bytes a read copied into the request's pages.                *)
(***************************************************************************)
\* SECTOR_SHIFT: 9 in the kernel, scaled to 1 (a sector of 2 bytes).
SECTOR_SHIFT == 1
SECTOR_SIZE == 2 ^ SECTOR_SHIFT

\* The disk's size in sectors (DISK_SIZE_MB * 1024 * 1024 / 512, scaled).
DiskSectors == 2
DISK_SIZE == DiskSectors * SECTOR_SIZE

\* A request has at most MaxSegs segments of at most MaxSegSectors sectors.
MaxSegs == 2
MaxSegSectors == 2

\* Sum of a sequence of segment lengths.
RECURSIVE SumLen(_)
SumLen(lens) == IF lens = <<>> THEN 0 ELSE Head(lens) + SumLen(Tail(lens))

NoRequest == [sector |-> 0, write |-> FALSE, fill |-> 0, lens |-> <<>>]

\* ramdisk_init: vzalloc gives zeroed memory of DISK_SIZE bytes.
RdInit ==
    /\ rd_data = [o \in 1..DISK_SIZE |-> 0]
    /\ rd_size = DISK_SIZE
    /\ rd_req = NoRequest
    /\ rd_status = "none"
    /\ rd_copied = {}
    /\ rd_out = <<>>

\* A mutant of BeyondDevice: the segment's length is left out of the check.
BeyondDevice_NoLen(pos, len) == pos > rd_size

\* The bounds check of line 53: pos + len > dev_size.
BeyondDevice(pos, len) == pos + len > rd_size

\* The body of rq_for_each_segment (lines 48-70) on the segments still to
\* do.  st is [data, copied, out]; the result adds the status the request
\* is ended with.
RECURSIVE Segments(_, _, _, _, _)
Segments(lens, pos, write, fill, st) ==
    IF lens = <<>>
    THEN [data |-> st.data, copied |-> st.copied, out |-> st.out,
          status |-> "BLK_STS_OK"]
    ELSE LET len == Head(lens)
             range == pos..(pos + len - 1)
         IN IF BeyondDevice(pos, len)
            THEN [data |-> st.data, copied |-> st.copied, out |-> st.out,
                  status |-> "BLK_STS_IOERR"]
            ELSE Segments(Tail(lens), pos + len, write, fill,
                   [data |-> IF write
                             THEN [o \in DOMAIN st.data |->
                                     IF (o - 1) \in range THEN fill
                                     ELSE st.data[o]]
                             ELSE st.data,
                    copied |-> st.copied \cup range,
                    out |-> IF write THEN st.out
                            ELSE st.out \o [i \in 1..len |->
                                   IF (pos + i) \in DOMAIN st.data
                                   THEN st.data[pos + i] ELSE 2]])

\* The requests tried: any start sector up to one past the end, reads and
\* writes (a write fills its pages with one byte value).
SegLens == UNION {[1..n -> {k * SECTOR_SIZE : k \in 1..MaxSegSectors}] :
                  n \in 1..MaxSegs}

\* ramdisk_queue_rq.
ramdisk_queue_rq ==
    \E sector \in 0..(DiskSectors + 1), write \in BOOLEAN, fill \in {0, 1},
       lens \in SegLens :
       /\ write \/ fill = 0
       /\ LET r == Segments(lens, sector * SECTOR_SIZE, write, fill,
                            [data |-> rd_data, copied |-> {}, out |-> <<>>])
          IN /\ rd_req' = [sector |-> sector, write |-> write, fill |-> fill,
                           lens |-> lens]
             /\ rd_data' = r.data
             /\ rd_copied' = r.copied
             /\ rd_out' = r.out
             /\ rd_status' = r.status
       /\ UNCHANGED rd_size
    /\ UNCHANGED rdOthers

RdNext == ramdisk_queue_rq

(***************************************************************************)
(* part2/export-symbol/mylib.c, part2/export-symbol/myuser.c and           *)
(* part2/module-params/params.c: three modules loaded and unloaded in any  *)
(* order the kernel allows.  myuser imports mylib's symbols, so it loads   *)
(* only while mylib is loaded and mylib unloads only while myuser is not.  *)
(***************************************************************************)
\* Values of myuser's "iterations" parameter tried: -1..MaxIterations and
\* the default, 5.
MaxIterations == 3

\* mylib_increment: ++mylib_counter.
mylib_increment(counter) == counter + 1

\* mylib_reset: mylib_counter = 0.
mylib_reset(counter) == 0

\* mylib_multiply.
mylib_multiply(a, b) == a * b

\* myuser_init's loop: n calls of mylib_increment (none when n <= 0).
RECURSIVE Increments(_, _)
Increments(counter, n) ==
    IF n <= 0 THEN counter ELSE Increments(mylib_increment(counter), n - 1)

\* Before any insmod: the variables hold their static initialisers.
ModInit ==
    /\ mylib_loaded = FALSE
    /\ mylib_counter = 0
    /\ myuser_loaded = FALSE
    /\ iterations = 5
    /\ params_loaded = FALSE
    /\ validated_param = 50

\* insmod mylib.ko: mylib_init.
mylib_init ==
    /\ ~mylib_loaded
    /\ mylib_loaded' = TRUE
    /\ mylib_counter' = 0
    /\ UNCHANGED <<myuserVars, paramsVars>>
    /\ UNCHANGED modOthers

\* rmmod mylib: mylib_exit only prints.
mylib_exit ==
    /\ mylib_loaded
    /\ ~myuser_loaded
    /\ mylib_loaded' = FALSE
    /\ UNCHANGED <<mylib_counter, myuserVars, paramsVars>>
    /\ UNCHANGED modOthers

\* insmod myuser.ko iterations=n: myuser_init.
myuser_init ==
    /\ ~myuser_loaded
    /\ mylib_loaded
    /\ \E n \in (-1..MaxIterations) \cup {5} :
          /\ iterations' = n
          /\ mylib_counter' = Increments(mylib_counter, n)
    /\ myuser_loaded' = TRUE
    /\ UNCHANGED <<mylib_loaded, paramsVars>>
    /\ UNCHANGED modOthers

\* rmmod myuser: myuser_exit calls mylib_reset.
myuser_exit ==
    /\ myuser_loaded
    /\ myuser_loaded' = FALSE
    /\ mylib_counter' = mylib_reset(mylib_counter)
    /\ UNCHANGED <<mylib_loaded, iterations, paramsVars>>
    /\ UNCHANGED modOthers

\* insmod params.ko: params_init only prints.
params_init ==
    /\ ~params_loaded
    /\ params_loaded' = TRUE
    /\ validated_param' = 50
    /\ UNCHANGED <<mylibVars, myuserVars>>
    /\ UNCHANGED modOthers

\* A mutant of params_exit: it resets mylib's counter, as myuser_exit does.
params_exit_ResetsMylib ==
    /\ params_loaded
    /\ params_loaded' = FALSE
    /\ mylib_counter' = mylib_reset(mylib_counter)
    /\ UNCHANGED <<mylib_loaded, validated_param, myuserVars>>
    /\ UNCHANGED modOthers

\* rmmod params: params_exit only prints.
params_exit ==
    /\ params_loaded
    /\ params_loaded' = FALSE
    /\ UNCHANGED <<validated_param, mylibVars, myuserVars>>
    /\ UNCHANGED modOthers

\* echo v > /sys/module/params/parameters/validated: validated_param_set
\* accepts 0..100.
validated_param_set ==
    /\ params_loaded
    /\ \E new_val \in {-1, 0, 1, 100, 101} :
          validated_param' = IF new_val < 0 \/ new_val > 100
                             THEN validated_param ELSE new_val
    /\ UNCHANGED <<params_loaded, mylibVars, myuserVars>>
    /\ UNCHANGED modOthers

MylibStep == mylib_init \/ mylib_exit
MyuserStep == myuser_init \/ myuser_exit
ParamsStep == params_init \/ params_exit \/ validated_param_set

ModNext ==
    \/ mylib_init
    \/ mylib_exit
    \/ myuser_init
    \/ myuser_exit
    \/ params_init
    \/ params_exit
    \/ validated_param_set

(***************************************************************************)
(* part3/ioctl-device/ioctl_device.c and ioctl_example.h                   *)
(***************************************************************************)
\* sizeof(dev->name) and sizeof(config.name): 32 in the source, scaled.
NAME_SIZE == 2

\* The counters are unsigned long in the source; here ioctl_count is
\* stopped at MaxCount and read_count and write_count at MaxRW.
MaxCount == 2
MaxRW == 1

\* #define IOCTL_MAGIC 'E'
IOCTL_MAGIC == 69

\* #define IOCTL_MAXNR 5
IOCTL_MAXNR == 5

\* A command word is its four bit-fields (include/uapi/asm-generic/ioctl.h):
\* direction (2 bits), size (14 bits), type (8 bits), number (8 bits).
_IOC(dir, type, nr, size) == [dir |-> dir, type |-> type, nr |-> nr, size |-> size]
_IOC_TYPE(cmd) == cmd.type
_IOC_NR(cmd) == cmd.nr
_IO(type, nr) == _IOC(0, type, nr, 0)
_IOW(type, nr, size) == _IOC(1, type, nr, size)
_IOR(type, nr, size) == _IOC(2, type, nr, size)
_IOWR(type, nr, size) == _IOC(3, type, nr, size)

\* sizeof(struct ioctl_config), sizeof(struct ioctl_stats) and sizeof(int)
\* on a 64-bit build.
SIZEOF_CONFIG == 40
SIZEOF_STATS == 32
SIZEOF_INT == 4

IOCTL_RESET == _IO(IOCTL_MAGIC, 0)
IOCTL_GET_STATS == _IOR(IOCTL_MAGIC, 1, SIZEOF_STATS)
IOCTL_GET_VALUE == _IOR(IOCTL_MAGIC, 2, SIZEOF_INT)
IOCTL_SET_CONFIG == _IOW(IOCTL_MAGIC, 3, SIZEOF_CONFIG)
IOCTL_SET_VALUE == _IOW(IOCTL_MAGIC, 4, SIZEOF_INT)
IOCTL_XFER_CONFIG == _IOWR(IOCTL_MAGIC, 5, SIZEOF_CONFIG)

\* Character arrays of NAME_SIZE bytes over {0, 1}; 0 is the terminator.
NameArrays == [1..NAME_SIZE -> {0, 1}]
EmptyName == [i \in 1..NAME_SIZE |-> 0]

\* Number of characters before the first 0 of array a (strlen, stopped at
\* the array's end).
RECURSIVE StrLenFrom(_, _)
StrLenFrom(a, i) ==
    IF i > Len(a) \/ a[i] = 0 THEN 0 ELSE 1 + StrLenFrom(a, i + 1)
StrLen(a) == StrLenFrom(a, 1)

\* The string an array holds: its characters before the first 0.
CStr(a) == SubSeq(a, 1, StrLen(a))

\* strscpy(dest, src, sizeof(dest)): at most NAME_SIZE - 1 characters of
\* src, then a 0; the bytes of dest after it are left as they were.
Strscpy(dest, src) ==
    LET k == Min(StrLen(src), NAME_SIZE - 1)
    IN [i \in 1..NAME_SIZE |->
          IF i <= k THEN src[i] ELSE IF i = k + 1 THEN 0 ELSE dest[i]]

\* What a call copied to user space.
NoOut == [kind |-> "none", stats |-> <<>>, value |-> 0, speed |-> 0,
          mode |-> 0, name |-> <<>>]

\* ioctl_init: ioctl_dev is static, so zeroed; the name is "default" (here
\* one character).
IoInit ==
    /\ io_speed = 0
    /\ io_mode = 0
    /\ io_name = Strscpy(EmptyName, [i \in 1..NAME_SIZE |-> 1])
    /\ io_value = 0
    /\ io_read_count = 0
    /\ io_write_count = 0
    /\ io_ioctl_count = 0
    /\ io_last_error = 0
    /\ io_fpos = 0
    /\ io_ret = 0
    /\ io_out = NoOut
    /\ called_reads = 0
    /\ called_writes = 0
    /\ called_ioctls = 0

\* ioctl_open on a new file: its position starts at 0.
ioctl_open ==
    /\ io_fpos' = 0
    /\ io_ret' = 0
    /\ io_out' = NoOut
    /\ UNCHANGED <<ioDevVars, called_reads, called_writes, called_ioctls>>
    /\ UNCHANGED ioOthers

\* ioctl_read(file, buf, count, ppos); fault: buf is not writable.
ioctl_read(count, fault) ==
    /\ io_read_count < MaxRW
    /\ io_read_count' = io_read_count + 1
    /\ called_reads' = called_reads + 1
    /\ IF io_fpos > 0
       THEN io_ret' = 0 /\ io_out' = NoOut /\ UNCHANGED io_fpos
       ELSE LET n == Min(count, NAME_SIZE)
            IN IF fault /\ n > 0
               THEN io_ret' = -EFAULT /\ io_out' = NoOut /\ UNCHANGED io_fpos
               ELSE /\ io_ret' = n
                    /\ io_out' = [NoOut EXCEPT !.kind = "bytes",
                                               !.name = SubSeq(io_name, 1, n)]
                    /\ io_fpos' = n
    /\ UNCHANGED <<io_speed, io_mode, io_name, io_value, io_write_count,
                   io_ioctl_count, io_last_error, called_writes, called_ioctls>>
    /\ UNCHANGED ioOthers

\* ioctl_write(file, buf, count, ppos) with buf holding the bytes data;
\* fault: buf is not readable.
ioctl_write(data, fault) ==
    /\ io_write_count < MaxRW
    /\ io_write_count' = io_write_count + 1
    /\ called_writes' = called_writes + 1
    /\ io_out' = NoOut
    /\ LET n == Min(Len(data), NAME_SIZE - 1)
       IN IF fault /\ n > 0
          THEN /\ io_last_error' = -EFAULT
               /\ io_ret' = -EFAULT
               /\ UNCHANGED io_name
          ELSE /\ io_name' = [i \in 1..NAME_SIZE |->
                                IF i <= n THEN data[i]
                                ELSE IF i = n + 1 THEN 0 ELSE io_name[i]]
               /\ io_ret' = n
               /\ UNCHANGED io_last_error
    /\ UNCHANGED <<io_speed, io_mode, io_value, io_read_count,
                   io_ioctl_count, io_fpos, called_reads, called_ioctls>>
    /\ UNCHANGED ioOthers

\* The user memory arg points to: unreadable and unwritable when fault,
\* else holding a struct ioctl_config or an int.
NoArg == [fault |-> FALSE, speed |-> 0, mode |-> 0, name |-> EmptyName,
          value |-> 0]

\* A mutant of IoctlRejected: the command number is not checked.
IoctlRejected_NoNrCheck(cmd) == _IOC_TYPE(cmd) # IOCTL_MAGIC

\* ioctl_ioctl, lines 117-127: the command's magic and number are checked
\* before anything is locked or counted.
IoctlRejected(cmd) ==
    \/ _IOC_TYPE(cmd) # IOCTL_MAGIC
    \/ _IOC_NR(cmd) > IOCTL_MAXNR

\* A mutant of SetConfigInvalid: the upper bound of speed is not checked.
SetConfigInvalid_NoUpperSpeed(arg) ==
    \/ arg.speed < 0
    \/ arg.mode < 0 \/ arg.mode > 3

\* ioctl_ioctl, lines 175 and 182: the validation of IOCTL_SET_CONFIG.
SetConfigInvalid(arg) ==
    \/ arg.speed < 0 \/ arg.speed > 1000
    \/ arg.mode < 0 \/ arg.mode > 3

\* A mutant of StatsSnapshot: ioctl_count is read before it is incremented.
StatsSnapshot_BeforeCount ==
    [reads |-> io_read_count, writes |-> io_write_count,
     ioctls |-> io_ioctl_count, last_error |-> io_last_error]

\* ioctl_ioctl, lines 147-150: the statistics IOCTL_GET_STATS copies out,
\* read after line 130 has counted the call itself.
StatsSnapshot ==
    [reads |-> io_read_count, writes |-> io_write_count,
     ioctls |-> io_ioctl_count + 1, last_error |-> io_last_error]

\* ioctl_ioctl(file, cmd, arg).
ioctl_ioctl(cmd, arg) ==
    /\ IoctlRejected(cmd) \/ cmd = IOCTL_RESET \/ io_ioctl_count < MaxCount
    /\ IF IoctlRejected(cmd)
       THEN /\ io_ret' = -ENOTTY
            /\ io_out' = NoOut
            /\ UNCHANGED <<io_speed, io_mode, io_name, io_value,
                           io_read_count, io_write_count, io_ioctl_count,
                           io_last_error,
                           called_reads, called_writes, called_ioctls>>
       ELSE
         CASE cmd = IOCTL_RESET ->
                /\ io_speed' = 0
                /\ io_mode' = 0
                /\ io_value' = 0
                /\ io_name' = EmptyName
                /\ io_read_count' = 0
                /\ io_write_count' = 0
                /\ io_ioctl_count' = 0
                /\ io_last_error' = 0
                /\ io_ret' = 0
                /\ io_out' = NoOut
                /\ called_reads' = 0
                /\ called_writes' = 0
                /\ called_ioctls' = 0
           [] cmd = IOCTL_GET_STATS ->
                /\ io_ioctl_count' = io_ioctl_count + 1
                /\ called_ioctls' = called_ioctls + 1
                /\ IF arg.fault
                   THEN /\ io_last_error' = -EFAULT
                        /\ io_ret' = -EFAULT
                        /\ io_out' = NoOut
                   ELSE /\ io_out' = [NoOut EXCEPT
                              !.kind = "stats",
                              !.stats = StatsSnapshot]
                        /\ io_ret' = 0
                        /\ UNCHANGED io_last_error
                /\ UNCHANGED <<io_speed, io_mode, io_name, io_value,
                               io_read_count, io_write_count,
                               called_reads, called_writes>>
           [] cmd = IOCTL_GET_VALUE ->
                /\ io_ioctl_count' = io_ioctl_count + 1
                /\ called_ioctls' = called_ioctls + 1
                /\ IF arg.fault
                   THEN /\ io_last_error' = -EFAULT
                        /\ io_ret' = -EFAULT
                        /\ io_out' = NoOut
                   ELSE /\ io_out' = [NoOut EXCEPT !.kind = "value",
                                                   !.value = io_value]
                        /\ io_ret' = 0
                        /\ UNCHANGED io_last_error
                /\ UNCHANGED <<io_speed, io_mode, io_name, io_value,
                               io_read_count, io_write_count,
                               called_reads, called_writes>>
           [] cmd = IOCTL_SET_CONFIG ->
                /\ io_ioctl_count' = io_ioctl_count + 1
                /\ called_ioctls' = called_ioctls + 1
                /\ io_out' = NoOut
                /\ IF arg.fault
                   THEN /\ io_last_error' = -EFAULT
                        /\ io_ret' = -EFAULT
                        /\ UNCHANGED <<io_speed, io_mode, io_name>>
                   ELSE IF SetConfigInvalid(arg)
                   THEN /\ io_last_error' = -EINVAL
                        /\ io_ret' = -EINVAL
                        /\ UNCHANGED <<io_speed, io_mode, io_name>>
                   ELSE /\ io_speed' = arg.speed
                        /\ io_mode' = arg.mode
                        /\ io_name' = Strscpy(io_name, arg.name)
                        /\ io_ret' = 0
                        /\ UNCHANGED io_last_error
                /\ UNCHANGED <<io_value, io_read_count, io_write_count,
                               called_reads, called_writes>>
           [] cmd = IOCTL_SET_VALUE ->
                /\ io_ioctl_count' = io_ioctl_count + 1
                /\ called_ioctls' = called_ioctls + 1
                /\ io_out' = NoOut
                /\ IF arg.fault
                   THEN /\ io_last_error' = -EFAULT
                        /\ io_ret' = -EFAULT
                        /\ UNCHANGED io_value
                   ELSE /\ io_value' = arg.value
                        /\ io_ret' = 0
                        /\ UNCHANGED io_last_error
                /\ UNCHANGED <<io_speed, io_mode, io_name, io_read_count,
                               io_write_count, called_reads, called_writes>>
           [] cmd = IOCTL_XFER_CONFIG ->
                /\ io_ioctl_count' = io_ioctl_count + 1
                /\ called_ioctls' = called_ioctls + 1
                /\ IF arg.fault
                   THEN /\ io_last_error' = -EFAULT
                        /\ io_ret' = -EFAULT
                        /\ io_out' = NoOut
                   ELSE /\ io_out' = [NoOut EXCEPT
                              !.kind = "config",
                              !.speed = io_speed,
                              !.mode = io_mode,
                              !.name = Strscpy(arg.name, io_name)]
                        /\ io_ret' = 0
                        /\ UNCHANGED io_last_error
                /\ UNCHANGED <<io_speed, io_mode, io_name, io_value,
                               io_read_count, io_write_count,
                               called_reads, called_writes>>
           [] OTHER ->
                /\ io_ioctl_count' = io_ioctl_count + 1
                /\ called_ioctls' = called_ioctls + 1
                /\ io_last_error' = -ENOTTY
                /\ io_ret' = -ENOTTY
                /\ io_out' = NoOut
                /\ UNCHANGED <<io_speed, io_mode, io_name, io_value,
                               io_read_count, io_write_count,
                               called_reads, called_writes>>
    /\ UNCHANGED io_fpos
    /\ UNCHANGED ioOthers

\* The configurations a caller passes to IOCTL_SET_CONFIG: speeds and modes
\* at and beyond both ends of the valid ranges, with a name that fills
\* config.name and has no terminator.
UserConfigs ==
    {[NoArg EXCEPT !.speed = sp, !.mode = md,
                   !.name = [i \in 1..NAME_SIZE |-> 1]] :
       sp \in {-1, 0, 1000, 1001}, md \in {-1, 0, 3, 4}}

\* The configurations IOCTL_SET_CONFIG must refuse.
BadConfigs ==
    {arg \in UserConfigs : arg.speed \notin 0..1000 \/ arg.mode \notin 0..3}

\* The configurations a caller passes to IOCTL_XFER_CONFIG.
XferConfigs ==
    {arg \in UserConfigs : <<arg.speed, arg.mode>> \in
                             {<<0, 0>>, <<1000, 3>>, <<1001, 4>>}}

\* The ints a caller passes to IOCTL_SET_VALUE.
UserValues == {[NoArg EXCEPT !.value = v] : v \in {0, 42}}

FaultArg == [NoArg EXCEPT !.fault = TRUE]

\* The commands tried: the six of the header, test_ioctl's _IO('E', 99), a
\* command of another driver, and number 3 with no direction or size.
UserCommands ==
    {IOCTL_RESET, IOCTL_GET_STATS, IOCTL_GET_VALUE, IOCTL_SET_CONFIG,
     IOCTL_SET_VALUE, IOCTL_XFER_CONFIG, _IO(IOCTL_MAGIC, 99),
     _IOR(84, 1, SIZEOF_STATS), _IO(IOCTL_MAGIC, 3)}

\* The arguments that make a difference to a command.
UserArgs(cmd) ==
    IF cmd = IOCTL_SET_CONFIG THEN UserConfigs \cup {FaultArg}
    ELSE IF cmd = IOCTL_XFER_CONFIG THEN XferConfigs \cup {FaultArg}
    ELSE IF cmd = IOCTL_SET_VALUE THEN UserValues \cup {FaultArg}
    ELSE {NoArg, FaultArg}

IoRead == \E count \in {0, NAME_SIZE, NAME_SIZE + 1}, fault \in BOOLEAN :
             ioctl_read(count, fault)

IoWrite == \E n \in 0..NAME_SIZE, fault \in BOOLEAN :
              ioctl_write([i \in 1..n |-> 1], fault)

IoIoctl == \E cmd \in UserCommands : \E arg \in UserArgs(cmd) :
              ioctl_ioctl(cmd, arg)

IoNext ==
    \/ ioctl_open
    \/ IoRead
    \/ IoWrite
    \/ IoIoctl

(***************************************************************************)
(* part3/simple-char/simple_char.c                                         *)
(***************************************************************************)
\* #define BUFFER_SIZE 4096 of simple_char.c, scaled.
SCHAR_BUFFER_SIZE == 3

\* The longest buffer a caller passes to write, and the longest read.
MaxWriteLen == 2

\* The file position is kept within SCHAR_BUFFER_SIZE + MaxSeekPast.
MaxSeekPast == 1

\* simple_init: simple_dev is static, so the buffer is zeroed; size = 0.
ScInit ==
    /\ sc_buffer = [i \in 1..SCHAR_BUFFER_SIZE |-> 0]
    /\ sc_size = 0
    /\ sc_fpos = 0
    /\ sc_ret = 0
    /\ sc_out = <<>>
    /\ sc_written = [i \in 1..SCHAR_BUFFER_SIZE |-> -1]

\* schar_read, lines 69-71: count is cut to the data available.
ReadCount(count) == Min(count, sc_size - sc_fpos)

\* schar_read(file, buf, count, ppos) at the file's position; fault: buf
\* is not writable.
schar_read(count, fault) ==
    /\ IF sc_fpos >= sc_size
       THEN sc_ret' = 0 /\ sc_out' = <<>> /\ UNCHANGED sc_fpos
       ELSE LET n == ReadCount(count)
            IN IF fault /\ n > 0
               THEN sc_ret' = -EFAULT /\ sc_out' = <<>> /\ UNCHANGED sc_fpos
               ELSE /\ sc_out' = [i \in 1..n |-> sc_buffer[sc_fpos + i]]
                    /\ sc_fpos' = sc_fpos + n
                    /\ sc_ret' = n
    /\ UNCHANGED <<sc_buffer, sc_size, sc_written>>
    /\ UNCHANGED scOthers

\* A mutant of WriteSize: the size becomes the new position even when the
\* write ends before the end of the data.
WriteSize_Always(newpos) == newpos

\* schar_write, lines 116-117: the size grows to the new position.
WriteSize(newpos) == IF newpos > sc_size THEN newpos ELSE sc_size

\* schar_write(file, buf, count, ppos) at the file's position with buf
\* holding the bytes data; fault: buf is not readable.
schar_write(data, fault) ==
    /\ sc_out' = <<>>
    /\ IF sc_fpos >= SCHAR_BUFFER_SIZE
       THEN /\ sc_ret' = -ENOSPC
            /\ UNCHANGED <<sc_buffer, sc_size, sc_fpos, sc_written>>
       ELSE LET n == Min(Len(data), SCHAR_BUFFER_SIZE - sc_fpos)
                touched == (sc_fpos + 1)..(sc_fpos + n)
            IN IF fault /\ n > 0
               THEN /\ sc_ret' = -EFAULT
                    /\ sc_written' = [i \in 1..SCHAR_BUFFER_SIZE |->
                                        IF i \in touched THEN -1
                                        ELSE sc_written[i]]
                    /\ UNCHANGED <<sc_buffer, sc_size, sc_fpos>>
               ELSE /\ sc_buffer' = [i \in 1..SCHAR_BUFFER_SIZE |->
                                       IF i \in touched THEN data[i - sc_fpos]
                                       ELSE sc_buffer[i]]
                    /\ sc_written' = [i \in 1..SCHAR_BUFFER_SIZE |->
                                        IF i \in touched THEN data[i - sc_fpos]
                                        ELSE sc_written[i]]
                    /\ sc_fpos' = sc_fpos + n
                    /\ sc_size' = WriteSize(sc_fpos + n)
                    /\ sc_ret' = n
    /\ UNCHANGED scOthers

\* simple_llseek(file, offset, whence).
simple_llseek(offset, whence) ==
    /\ sc_out' = <<>>
    /\ IF whence \notin {"SEEK_SET", "SEEK_CUR", "SEEK_END"}
       THEN sc_ret' = -EINVAL /\ UNCHANGED sc_fpos
       ELSE LET newpos == CASE whence = "SEEK_SET" -> offset
                            [] whence = "SEEK_CUR" -> sc_fpos + offset
                            [] whence = "SEEK_END" -> sc_size + offset
            IN /\ newpos <= SCHAR_BUFFER_SIZE + MaxSeekPast
               /\ IF newpos < 0
                  THEN sc_ret' = -EINVAL /\ UNCHANGED sc_fpos
                  ELSE sc_ret' = newpos /\ sc_fpos' = newpos
    /\ UNCHANGED <<sc_buffer, sc_size, sc_written>>
    /\ UNCHANGED scOthers

\* The buffers a caller writes: of every length up to MaxWriteLen, bytes 1
\* and 2 alternating, starting with either.
UserData == {[i \in 1..n |-> ((i + k) % 2) + 1] : n \in 0..MaxWriteLen,
                                                    k \in {0, 1}}

ScRead == \E count \in 0..MaxWriteLen, fault \in BOOLEAN :
             schar_read(count, fault)

ScWrite == \E data \in UserData, fault \in BOOLEAN : schar_write(data, fault)

ScSeek == \E offset \in -1..(SCHAR_BUFFER_SIZE + MaxSeekPast),
             whence \in {"SEEK_SET", "SEEK_CUR", "SEEK_END", "SEEK_DATA"} :
             simple_llseek(offset, whence)

ScNext ==
    \/ ScRead
    \/ ScWrite
    \/ ScSeek

(***************************************************************************)
(* appendices/kunit-test/kunit_example_test.c                              *)
(***************************************************************************)
\* The width of int: 32 bits in the source, scaled.  Signed overflow wraps
\* (the kernel is built with -fno-strict-overflow).
INT_BITS == 8
INT_MAX == 2 ^ (INT_BITS - 1) - 1
INT_MIN == -(2 ^ (INT_BITS - 1))

\* An integer brought into the range of int, modulo 2^INT_BITS.
ToInt(x) == ((x - INT_MIN) % (2 ^ INT_BITS)) + INT_MIN

\* A mutant of example_add: the sum is saturated, not wrapped.
example_add_Saturating(a, b) ==
    IF a + b > INT_MAX THEN INT_MAX
    ELSE IF a + b < INT_MIN THEN INT_MIN ELSE a + b

\* example_add: a + b in int arithmetic.
example_add(a, b) == ToInt(a + b)

\* example_clamp.
example_clamp(val, min, max) ==
    IF val < min THEN min
    ELSE IF val > max THEN max
    ELSE val

\* The ints the functions are called with: the values of the test cases
\* and both ends of the range of int.
IntValues == {INT_MIN, -5, -1, 0, 5, 10, 15, INT_MAX}

NoTests == [test_add_positive |-> "not run", test_add_negative |-> "not run",
            test_clamp |-> "not run"]

KuInit ==
    /\ ku_call = <<"none">>
    /\ ku_result = 0
    /\ ku_tests = NoTests

\* A call of example_add.
CallAdd ==
    /\ \E a \in IntValues, b \in IntValues :
          /\ ku_call' = <<"example_add", a, b>>
          /\ ku_result' = example_add(a, b)
    /\ UNCHANGED ku_tests
    /\ UNCHANGED kuOthers

\* A call of example_clamp.
CallClamp ==
    /\ \E val \in IntValues, min \in IntValues, max \in IntValues :
          /\ ku_call' = <<"example_clamp", val, min, max>>
          /\ ku_result' = example_clamp(val, min, max)
    /\ UNCHANGED ku_tests
    /\ UNCHANGED kuOthers

Outcome(ok) == IF ok THEN "passed" ELSE "failed"

\* The suite example_tests: test_add_positive, test_add_negative and
\* test_clamp, each passing when all its KUNIT_EXPECT_EQ hold.
RunSuite ==
    /\ ku_tests' =
         [test_add_positive |->
            Outcome(example_add(2, 3) = 5 /\ example_add(0, 0) = 0),
          test_add_negative |->
            Outcome(example_add(-1, 1) = 0 /\ example_add(-5, -3) = -8),
          test_clamp |->
            Outcome(/\ example_clamp(5, 0, 10) = 5
                    /\ example_clamp(-5, 0, 10) = 0
                    /\ example_clamp(15, 0, 10) = 10
                    /\ example_clamp(0, 0, 10) = 0
                    /\ example_clamp(10, 0, 10) = 10)]
    /\ UNCHANGED <<ku_call, ku_result>>
    /\ UNCHANGED kuOthers

KuNext ==
    \/ CallAdd
    \/ CallClamp
    \/ RunSuite

(***************************************************************************)
(* part14/usb-device/usb_demo.c: one file on the misc device, used by one  *)
(* caller of read or write at a time, against usb_demo_disconnect.  Each   *)
(* action is one step between two points where the other context can run.  *)
(***************************************************************************)
ENODEV == 19
ETIMEDOUT == 110

\* The largest count passed to read or write; bulk_in_size and BUFFER_SIZE
\* are larger, so the count is never cut.
MaxUsbCount == 1

UsbIdle == [pc |-> "idle", op |-> "none", count |-> 0, after |-> FALSE]

\* After usb_demo_probe has returned 0.
UsbInit ==
    /\ usb_connected = TRUE
    /\ usb_io_mutex = "free"
    /\ usb_mem = [dev |-> "live", bulk_in_buffer |-> "live",
                  bulk_out_buffer |-> "live"]
    /\ usb_registered = TRUE
    /\ usb_file = "closed"
    /\ usb_rw = UsbIdle
    /\ usb_disc_pc = "attached"
    /\ usb_ret = 0
    /\ usb_freed_access = {}

\* The allocations among objs that have been freed.
Freed(objs) == {o \in objs : usb_mem[o] = "freed"}

\* The values a read of dev->connected can give: the field's while the
\* structure is live, anything once it has been freed.
ConnectedRead == IF usb_mem.dev = "live" THEN {usb_connected} ELSE BOOLEAN

\* usb_demo_open, while the misc device is registered.
usb_demo_open ==
    /\ usb_registered
    /\ usb_file = "closed"
    /\ usb_rw.pc = "idle"
    /\ IF usb_connected
       THEN usb_file' = "open" /\ usb_ret' = 0
       ELSE usb_file' = "closed" /\ usb_ret' = -ENODEV
    /\ usb_freed_access' = {}
    /\ UNCHANGED <<usb_connected, usb_io_mutex, usb_mem, usb_registered,
                   usb_rw, usb_disc_pc>>
    /\ UNCHANGED usbOthers

\* read or write is entered on the open file; "after" records whether
\* usb_demo_disconnect had already returned.
UsbCall ==
    /\ usb_file = "open"
    /\ usb_rw.pc = "idle"
    /\ \E op \in {"read", "write"}, count \in 0..MaxUsbCount :
          usb_rw' = [pc |-> "check", op |-> op, count |-> count,
                     after |-> (usb_disc_pc = "done")]
    /\ usb_freed_access' = {}
    /\ UNCHANGED <<usb_connected, usb_io_mutex, usb_mem, usb_registered,
                   usb_file, usb_disc_pc, usb_ret>>
    /\ UNCHANGED usbOthers

\* The first test of dev->connected, without the mutex.
UsbCheck ==
    /\ usb_rw.pc = "check"
    /\ usb_freed_access' = usb_freed_access \cup Freed({"dev"})
    /\ \E connected \in ConnectedRead :
          IF connected
          THEN usb_rw' = [usb_rw EXCEPT !.pc = "lock"] /\ UNCHANGED usb_ret
          ELSE usb_rw' = [usb_rw EXCEPT !.pc = "idle"] /\ usb_ret' = -ENODEV
    /\ UNCHANGED <<usb_connected, usb_io_mutex, usb_mem, usb_registered,
                   usb_file, usb_disc_pc>>
    /\ UNCHANGED usbOthers

\* mutex_lock(&dev->io_mutex) by the caller.
UsbLock ==
    /\ usb_rw.pc = "lock"
    /\ usb_io_mutex = "free"
    /\ usb_io_mutex' = "rw"
    /\ usb_freed_access' = usb_freed_access \cup Freed({"dev"})
    /\ usb_rw' = [usb_rw EXCEPT !.pc = "recheck"]
    /\ UNCHANGED <<usb_connected, usb_mem, usb_registered, usb_file,
                   usb_disc_pc, usb_ret>>
    /\ UNCHANGED usbOthers

\* The second test of dev->connected, with the mutex held.
UsbRecheck ==
    /\ usb_rw.pc = "recheck"
    /\ usb_freed_access' = usb_freed_access \cup Freed({"dev"})
    /\ \E connected \in ConnectedRead :
          IF connected
          THEN usb_rw' = [usb_rw EXCEPT !.pc = "transfer"]
               /\ UNCHANGED usb_ret
          ELSE usb_rw' = [usb_rw EXCEPT !.pc = "unlock"]
               /\ usb_ret' = -ENODEV
    /\ UNCHANGED <<usb_connected, usb_io_mutex, usb_mem, usb_registered,
                   usb_file, usb_disc_pc>>
    /\ UNCHANGED usbOthers

\* usb_bulk_msg and the copy to or from the caller: the transfer fails,
\* the copy faults, or the call gives the number of bytes moved.
UsbTransfer ==
    /\ usb_rw.pc = "transfer"
    /\ usb_freed_access' =
         usb_freed_access
           \cup Freed({"dev", IF usb_rw.op = "read" THEN "bulk_in_buffer"
                              ELSE "bulk_out_buffer"})
    /\ \E ret \in {-ETIMEDOUT, -EFAULT} \cup (0..usb_rw.count) : usb_ret' = ret
    /\ usb_rw' = [usb_rw EXCEPT !.pc = "unlock"]
    /\ UNCHANGED <<usb_connected, usb_io_mutex, usb_mem, usb_registered,
                   usb_file, usb_disc_pc>>
    /\ UNCHANGED usbOthers

\* unlock: mutex_unlock and return ret.
UsbUnlock ==
    /\ usb_rw.pc = "unlock"
    /\ usb_io_mutex' = "free"
    /\ usb_freed_access' = usb_freed_access \cup Freed({"dev"})
    /\ usb_rw' = [usb_rw EXCEPT !.pc = "idle"]
    /\ UNCHANGED <<usb_connected, usb_mem, usb_registered, usb_file,
                   usb_disc_pc, usb_ret>>
    /\ UNCHANGED usbOthers

\* usb_demo_disconnect: mutex_lock and dev->connected = false.
DisconnectMark ==
    /\ usb_disc_pc = "attached"
    /\ usb_io_mutex = "free"
    /\ usb_io_mutex' = "disconnect"
    /\ usb_connected' = FALSE
    /\ usb_disc_pc' = "marked"
    /\ UNCHANGED <<usb_mem, usb_registered, usb_file, usb_rw, usb_ret,
                   usb_freed_access>>
    /\ UNCHANGED usbOthers

\* usb_demo_disconnect: mutex_unlock.
DisconnectUnlock ==
    /\ usb_disc_pc = "marked"
    /\ usb_io_mutex' = "free"
    /\ usb_disc_pc' = "unlocked"
    /\ UNCHANGED <<usb_connected, usb_mem, usb_registered, usb_file, usb_rw,
                   usb_ret, usb_freed_access>>
    /\ UNCHANGED usbOthers

\* usb_demo_disconnect: misc_deregister, which closes no file.
DisconnectDeregister ==
    /\ usb_disc_pc = "unlocked"
    /\ usb_registered' = FALSE
    /\ usb_disc_pc' = "deregistered"
    /\ UNCHANGED <<usb_connected, usb_io_mutex, usb_mem, usb_file, usb_rw,
                   usb_ret, usb_freed_access>>
    /\ UNCHANGED usbOthers

\* usb_demo_disconnect: the three kfree calls, and the return.
DisconnectFree ==
    /\ usb_disc_pc = "deregistered"
    /\ usb_mem' = [dev |-> "freed", bulk_in_buffer |-> "freed",
                   bulk_out_buffer |-> "freed"]
    /\ usb_disc_pc' = "done"
    /\ UNCHANGED <<usb_connected, usb_io_mutex, usb_registered, usb_file,
                   usb_rw, usb_ret, usb_freed_access>>
    /\ UNCHANGED usbOthers

UsbNext ==
    \/ usb_demo_open
    \/ UsbCall
    \/ UsbCheck
    \/ UsbLock
    \/ UsbRecheck
    \/ UsbTransfer
    \/ UsbUnlock
    \/ DisconnectMark
    \/ DisconnectUnlock
    \/ DisconnectDeregister
    \/ DisconnectFree

(***************************************************************************)
(* part12/virtual-netdev/vnet_demo.c.  A packet is its sequence number,    *)
(* which is also its length; 0 is the NULL of an empty ring slot.          *)
(***************************************************************************)
\* RX_RING_SIZE: 64 in the source, scaled.
RX_RING_SIZE == 3

\* The budget the core passes to vnet_poll (the NAPI weight, 64), scaled.
NapiBudget == 2

\* The number of packets transmitted in a run.
MaxPackets == 3

\* rx_ring_full.
rx_ring_full == ((vn_rx_head + 1) % RX_RING_SIZE) = vn_rx_tail

\* rx_ring_empty.
rx_ring_empty == vn_rx_head = vn_rx_tail

\* A mutant of RingNext: the index is not advanced.
RingNext_Stuck(i) == i

\* The index after i, as rx_ring_enqueue and rx_ring_dequeue advance it.
RingNext(i) == (i + 1) % RX_RING_SIZE

\* After vnet_init: the private area is zeroed, the NAPI instance is added
\* disabled and the interface is down.
VnetInit ==
    /\ vn_rx_ring = [i \in 1..RX_RING_SIZE |-> 0]
    /\ vn_rx_head = 0
    /\ vn_rx_tail = 0
    /\ vn_tx_packets = 0
    /\ vn_tx_bytes = 0
    /\ vn_rx_packets = 0
    /\ vn_rx_bytes = 0
    /\ vn_rx_dropped = 0
    /\ vn_queue = "down"
    /\ vn_napi = [enabled |-> FALSE, sched |-> FALSE, missed |-> FALSE]
    /\ vn_poll = [pc |-> "idle", processed |-> 0]
    /\ vn_sent = 0
    /\ vn_queued = <<>>
    /\ vn_delivered = <<>>
    /\ vn_freed = <<>>

\* vnet_open: napi_enable and netif_start_queue.
vnet_open ==
    /\ vn_queue = "down"
    /\ vn_napi' = [enabled |-> TRUE, sched |-> FALSE, missed |-> FALSE]
    /\ vn_queue' = "started"
    /\ UNCHANGED <<vn_rx_ring, vn_rx_head, vn_rx_tail, vn_tx_packets,
                   vn_tx_bytes, vn_rx_packets, vn_rx_bytes, vn_rx_dropped,
                   vn_poll, vn_sent, vn_queued, vn_delivered, vn_freed>>
    /\ UNCHANGED vnetOthers

\* napi_schedule: sets the scheduled bit, or notes the request as missed
\* when the instance is already scheduled.
napi_schedule ==
    IF vn_napi.sched THEN [vn_napi EXCEPT !.missed = TRUE]
    ELSE [vn_napi EXCEPT !.sched = TRUE]

\* vnet_start_xmit of the next packet, whose copy succeeds or fails.
vnet_start_xmit(copied) ==
    /\ vn_queue = "started"
    /\ vn_sent < MaxPackets
    /\ LET skb == vn_sent + 1
       IN /\ vn_sent' = skb
          /\ vn_tx_packets' = vn_tx_packets + 1
          /\ vn_tx_bytes' = vn_tx_bytes + skb
          /\ IF copied /\ ~rx_ring_full
             THEN /\ vn_rx_ring' = [vn_rx_ring EXCEPT ![vn_rx_head + 1] = skb]
                  /\ vn_rx_head' = RingNext(vn_rx_head)
                  /\ vn_napi' = napi_schedule
                  /\ vn_queued' = Append(vn_queued, skb)
                  /\ UNCHANGED <<vn_rx_dropped, vn_freed>>
             ELSE IF copied
             THEN /\ vn_rx_dropped' = vn_rx_dropped + 1
                  /\ vn_freed' = Append(vn_freed, skb)
                  /\ UNCHANGED <<vn_rx_ring, vn_rx_head, vn_napi, vn_queued>>
             ELSE UNCHANGED <<vn_rx_ring, vn_rx_head, vn_napi, vn_queued,
                              vn_rx_dropped, vn_freed>>
    /\ UNCHANGED <<vn_rx_tail, vn_rx_packets, vn_rx_bytes, vn_queue, vn_poll,
                   vn_delivered>>
    /\ UNCHANGED vnetOthers

VnetXmit == \E copied \in BOOLEAN : vnet_start_xmit(copied)

\* The softirq enters vnet_poll on the enabled and scheduled instance.
PollEnter ==
    /\ vn_napi.enabled
    /\ vn_napi.sched
    /\ vn_poll.pc = "idle"
    /\ vn_poll' = [pc |-> "loop", processed |-> 0]
    /\ UNCHANGED <<vn_rx_ring, vn_rx_head, vn_rx_tail, vn_tx_packets,
                   vn_tx_bytes, vn_rx_packets, vn_rx_bytes, vn_rx_dropped,
                   vn_queue, vn_napi, vn_sent, vn_queued, vn_delivered,
                   vn_freed>>
    /\ UNCHANGED vnetOthers

\* One turn of vnet_poll's loop: leave it when the budget is used up, the
\* ring is empty or the slot holds NULL; otherwise dequeue a packet, count
\* it and hand it to napi_gro_receive.
PollLoop ==
    /\ vn_poll.pc = "loop"
    /\ IF vn_poll.processed >= NapiBudget \/ rx_ring_empty
       THEN /\ vn_poll' = [vn_poll EXCEPT !.pc = "after"]
            /\ UNCHANGED <<vn_rx_ring, vn_rx_tail, vn_rx_packets,
                           vn_rx_bytes, vn_delivered>>
       ELSE LET skb == vn_rx_ring[vn_rx_tail + 1]
            IN /\ vn_rx_ring' = [vn_rx_ring EXCEPT ![vn_rx_tail + 1] = 0]
               /\ vn_rx_tail' = RingNext(vn_rx_tail)
               /\ IF skb = 0
                  THEN /\ vn_poll' = [vn_poll EXCEPT !.pc = "after"]
                       /\ UNCHANGED <<vn_rx_packets, vn_rx_bytes,
                                      vn_delivered>>
                  ELSE /\ vn_rx_packets' = vn_rx_packets + 1
                       /\ vn_rx_bytes' = vn_rx_bytes + skb
                       /\ vn_delivered' = Append(vn_delivered, skb)
                       /\ vn_poll' = [vn_poll EXCEPT
                                        !.processed = vn_poll.processed + 1]
    /\ UNCHANGED <<vn_rx_head, vn_tx_packets, vn_tx_bytes, vn_rx_dropped,
                   vn_queue, vn_napi, vn_sent, vn_queued, vn_freed>>
    /\ UNCHANGED vnetOthers

\* The end of vnet_poll.  With budget left, napi_complete_done clears the
\* scheduled bit unless a schedule was missed meanwhile, in which case the
\* instance stays scheduled; with the budget used up it stays scheduled too.
PollReturn ==
    /\ vn_poll.pc = "after"
    /\ vn_napi' = IF vn_poll.processed < NapiBudget /\ ~vn_napi.missed
                  THEN [vn_napi EXCEPT !.sched = FALSE]
                  ELSE [vn_napi EXCEPT !.missed = FALSE]
    /\ vn_poll' = [pc |-> "idle", processed |-> 0]
    /\ UNCHANGED <<vn_rx_ring, vn_rx_head, vn_rx_tail, vn_tx_packets,
                   vn_tx_bytes, vn_rx_packets, vn_rx_bytes, vn_rx_dropped,
                   vn_queue, vn_sent, vn_queued, vn_delivered, vn_freed>>
    /\ UNCHANGED vnetOthers

\* vnet_stop: netif_stop_queue.
VnetStopQueue ==
    /\ vn_queue = "started"
    /\ vn_queue' = "stopped"
    /\ UNCHANGED <<vn_rx_ring, vn_rx_head, vn_rx_tail, vn_tx_packets,
                   vn_tx_bytes, vn_rx_packets, vn_rx_bytes, vn_rx_dropped,
                   vn_napi, vn_poll, vn_sent, vn_queued, vn_delivered,
                   vn_freed>>
    /\ UNCHANGED vnetOthers

\* The packets left on the ring, slot by slot.
RECURSIVE RingLeft(_)
RingLeft(i) ==
    IF i > RX_RING_SIZE THEN <<>>
    ELSE (IF vn_rx_ring[i] # 0 THEN <<vn_rx_ring[i]>> ELSE <<>>)
           \o RingLeft(i + 1)

\* vnet_stop: napi_disable, which waits until the instance is no longer
\* scheduled, then the loop that frees what the ring holds.
VnetStopNapi ==
    /\ vn_queue = "stopped"
    /\ ~vn_napi.sched
    /\ vn_napi' = [enabled |-> FALSE, sched |-> TRUE, missed |-> FALSE]
    /\ vn_freed' = vn_freed \o RingLeft(1)
    /\ vn_rx_ring' = [i \in 1..RX_RING_SIZE |-> 0]
    /\ vn_rx_head' = 0
    /\ vn_rx_tail' = 0
    /\ vn_queue' = "down"
    /\ UNCHANGED <<vn_tx_packets, vn_tx_bytes, vn_rx_packets, vn_rx_bytes,
                   vn_rx_dropped, vn_poll, vn_sent, vn_queued, vn_delivered>>
    /\ UNCHANGED vnetOthers

VnetPoll == PollEnter \/ PollLoop \/ PollReturn

VnetNext ==
    \/ vnet_open
    \/ VnetXmit
    \/ PollEnter
    \/ PollLoop
    \/ PollReturn
    \/ VnetStopQueue
    \/ VnetStopNapi

(***************************************************************************)
(* part10/watchdog-driver/watchdog_demo.c.  The watchdog core calls the    *)
(* operations one at a time: start only while the watchdog is not active   *)
(* and stop and ping only while it is, and it sets WDOG_ACTIVE when start  *)
(* has returned 0 and clears it when stop has.  Time advances by one jiffy *)
(* at a time and a timer's callback runs in the jiffy the timer expires.   *)
(***************************************************************************)
\* Jiffies in a second, scaled.
HZ == 2

\* The width of jiffies (unsigned long), scaled.
JIFFIES_BITS == 5

\* WDT_MIN_TIMEOUT, and WDT_MAX_TIMEOUT (60 in the source) scaled.
WDT_MIN_TIMEOUT == 1
WDT_MAX_TIMEOUT == 2

\* WDT_DEFAULT_TIMEOUT: half of WDT_MAX_TIMEOUT, as 30 is of 60.
WDT_DEFAULT_TIMEOUT == (WDT_MAX_TIMEOUT + 1) \div 2

\* The length of a run, in jiffies.
MaxTime == 8

\* Unsigned arithmetic on jiffies.
ULong(x) == x % (2 ^ JIFFIES_BITS)

\* time_after_eq(a, b).
time_after_eq(a, b) == ULong(a - b) < 2 ^ (JIFFIES_BITS - 1)

\* After demo_wdt_probe; jiffies is about to wrap, as it is after boot.
WdInit ==
    /\ wd_active = FALSE
    /\ wd_timeout = WDT_DEFAULT_TIMEOUT
    /\ wd_last_ping = 0
    /\ wd_expired = FALSE
    /\ wd_timer = [pending |-> FALSE, expires |-> 0]
    /\ wd_jiffies = ULong(-(HZ + 1))
    /\ wd_now = 0
    /\ wd_kick = 0
    /\ wd_on_time = TRUE

\* mod_timer(&wdt->timer, jiffies + HZ).
mod_timer == [pending |-> TRUE, expires |-> ULong(wd_jiffies + HZ)]

\* A mutant of TimedOut: the comparison is strict.
TimedOut_Strict(elapsed) == elapsed > wd_timeout * HZ

\* demo_wdt_timer_cb's test: elapsed >= timeout_jiffies.
TimedOut(elapsed) == elapsed >= wd_timeout * HZ

\* demo_wdt_timer_cb, run when the timer has expired.
demo_wdt_timer_cb ==
    /\ wd_timer.pending
    /\ time_after_eq(wd_jiffies, wd_timer.expires)
    /\ IF wd_active
       THEN IF TimedOut(ULong(wd_jiffies - wd_last_ping))
            THEN /\ wd_expired' = TRUE
                 /\ wd_timer' = [wd_timer EXCEPT !.pending = FALSE]
            ELSE /\ wd_timer' = mod_timer
                 /\ UNCHANGED wd_expired
       ELSE /\ wd_timer' = [wd_timer EXCEPT !.pending = FALSE]
            /\ UNCHANGED wd_expired
    /\ UNCHANGED <<wd_active, wd_timeout, wd_last_ping, wd_jiffies, wd_now,
                   wd_kick, wd_on_time>>
    /\ UNCHANGED wdOthers

\* A jiffy passes, once every expired timer has run.
WdTick ==
    /\ wd_now < MaxTime
    /\ ~(wd_timer.pending /\ time_after_eq(wd_jiffies, wd_timer.expires))
    /\ wd_jiffies' = ULong(wd_jiffies + 1)
    /\ wd_now' = wd_now + 1
    /\ UNCHANGED <<wd_active, wd_timeout, wd_last_ping, wd_expired, wd_timer,
                   wd_kick, wd_on_time>>
    /\ UNCHANGED wdOthers

\* demo_wdt_start, after which the core sets WDOG_ACTIVE.
demo_wdt_start ==
    /\ ~wd_active
    /\ wd_last_ping' = wd_jiffies
    /\ wd_expired' = FALSE
    /\ wd_timer' = mod_timer
    /\ wd_active' = TRUE
    /\ wd_kick' = wd_now
    /\ wd_on_time' = TRUE
    /\ UNCHANGED <<wd_timeout, wd_jiffies, wd_now>>
    /\ UNCHANGED wdOthers

\* demo_wdt_stop, after which the core clears WDOG_ACTIVE.
demo_wdt_stop ==
    /\ wd_active
    /\ wd_timer' = [wd_timer EXCEPT !.pending = FALSE]
    /\ wd_expired' = FALSE
    /\ wd_active' = FALSE
    /\ UNCHANGED <<wd_timeout, wd_last_ping, wd_jiffies, wd_now, wd_kick,
                   wd_on_time>>
    /\ UNCHANGED wdOthers

\* Whether a ping now comes less than the timeout after the one before.
OnTime == wd_on_time /\ wd_now - wd_kick < wd_timeout * HZ

\* demo_wdt_ping.
demo_wdt_ping ==
    /\ wd_active
    /\ wd_last_ping' = wd_jiffies
    /\ wd_timer' = mod_timer
    /\ wd_kick' = wd_now
    /\ wd_on_time' = OnTime
    /\ UNCHANGED <<wd_active, wd_timeout, wd_expired, wd_jiffies, wd_now>>
    /\ UNCHANGED wdOthers

\* demo_wdt_set_timeout, with a timeout the core has found valid; it pings
\* when the watchdog is active.
demo_wdt_set_timeout(timeout) ==
    /\ wd_timeout' = timeout
    /\ IF wd_active
       THEN /\ wd_last_ping' = wd_jiffies
            /\ wd_timer' = mod_timer
            /\ wd_kick' = wd_now
            /\ wd_on_time' = OnTime
       ELSE UNCHANGED <<wd_last_ping, wd_timer, wd_kick, wd_on_time>>
    /\ UNCHANGED <<wd_active, wd_expired, wd_jiffies, wd_now>>
    /\ UNCHANGED wdOthers

WdSetTimeout ==
    \E timeout \in WDT_MIN_TIMEOUT..WDT_MAX_TIMEOUT :
       demo_wdt_set_timeout(timeout)

WdNext ==
    \/ demo_wdt_timer_cb
    \/ WdTick
    \/ demo_wdt_start
    \/ demo_wdt_stop
    \/ demo_wdt_ping
    \/ WdSetTimeout

(***************************************************************************)
(* part4/timer-demo/timer_demo.c: the standard timer.  Writers of the proc *)
(* file run start_timer and stop_timer with no lock between them, so each  *)
(* access of timer_running and each timer call is a step of its own.  The  *)
(* commands hstart and hstop touch only the high-resolution timer.         *)
(***************************************************************************)
\* The processes writing commands to /proc/timer_demo.
Writers == 1..2

\* The number of times the timer fires in a run.
MaxFires == 2

\* After timer_demo_init.
TmInit ==
    /\ tm_running = FALSE
    /\ tm_fire_count = 0
    /\ tm_pending = FALSE
    /\ tm_cb = "idle"
    /\ tm_writer = [w \in Writers |-> "idle"]
    /\ tm_exit = "loaded"
    /\ tm_quiet = FALSE
    /\ tm_count_at_stop = 0

\* stats_write is entered with "start", "stop" or any other command; the
\* proc entry admits no new call once proc_remove has begun.
TmWrite(w) ==
    /\ tm_writer[w] = "idle"
    /\ tm_exit \in {"loaded", "stop_del", "remove"}
    /\ \E cmd \in {"start", "stop", "other"} :
          /\ tm_writer' =
               [tm_writer EXCEPT ![w] = CASE cmd = "start" -> "start_test"
                                          [] cmd = "stop" -> "stop_clear"
                                          [] OTHER -> "idle"]
          /\ tm_quiet' = IF cmd = "start" THEN FALSE ELSE tm_quiet
    /\ UNCHANGED <<tm_running, tm_fire_count, tm_pending, tm_cb, tm_exit,
                   tm_count_at_stop>>
    /\ UNCHANGED tmOthers

\* start_timer: if (timer_running) return.
StartTest(w) ==
    /\ tm_writer[w] = "start_test"
    /\ tm_writer' = [tm_writer EXCEPT
                       ![w] = IF tm_running THEN "idle" ELSE "start_set"]
    /\ UNCHANGED <<tm_running, tm_fire_count, tm_pending, tm_cb, tm_exit,
                   tm_quiet, tm_count_at_stop>>
    /\ UNCHANGED tmOthers

\* start_timer: timer_running = true.
StartSet(w) ==
    /\ tm_writer[w] = "start_set"
    /\ tm_running' = TRUE
    /\ tm_writer' = [tm_writer EXCEPT ![w] = "start_arm"]
    /\ UNCHANGED <<tm_fire_count, tm_pending, tm_cb, tm_exit, tm_quiet,
                   tm_count_at_stop>>
    /\ UNCHANGED tmOthers

\* start_timer: mod_timer, and the return.
StartArm(w) ==
    /\ tm_writer[w] = "start_arm"
    /\ tm_pending' = TRUE
    /\ tm_writer' = [tm_writer EXCEPT ![w] = "idle"]
    /\ UNCHANGED <<tm_running, tm_fire_count, tm_cb, tm_exit, tm_quiet,
                   tm_count_at_stop>>
    /\ UNCHANGED tmOthers

\* stop_timer, called by a writer: timer_running = false.
StopClear(w) ==
    /\ tm_writer[w] = "stop_clear"
    /\ tm_running' = FALSE
    /\ tm_writer' = [tm_writer EXCEPT ![w] = "stop_del"]
    /\ UNCHANGED <<tm_fire_count, tm_pending, tm_cb, tm_exit, tm_quiet,
                   tm_count_at_stop>>
    /\ UNCHANGED tmOthers

\* stop_timer, called by a writer: del_timer_sync, which waits for a
\* running callback and removes the timer; and the return.
StopDel(w) ==
    /\ tm_writer[w] = "stop_del"
    /\ tm_cb = "idle"
    /\ tm_pending' = FALSE
    /\ tm_writer' = [tm_writer EXCEPT ![w] = "idle"]
    /\ tm_quiet' = TRUE
    /\ tm_count_at_stop' = tm_fire_count
    /\ UNCHANGED <<tm_running, tm_fire_count, tm_cb, tm_exit>>
    /\ UNCHANGED tmOthers

\* The timer expires: it is no longer pending and its callback starts.
TimerExpire ==
    /\ tm_pending
    /\ tm_cb = "idle"
    /\ tm_fire_count < MaxFires
    /\ tm_pending' = FALSE
    /\ tm_cb' = "count"
    /\ UNCHANGED <<tm_running, tm_fire_count, tm_writer, tm_exit, tm_quiet,
                   tm_count_at_stop>>
    /\ UNCHANGED tmOthers

\* poll_timer_callback: atomic_inc(&timer_fire_count).
CallbackCount ==
    /\ tm_cb = "count"
    /\ tm_fire_count' = tm_fire_count + 1
    /\ tm_cb' = "rearm"
    /\ UNCHANGED <<tm_running, tm_pending, tm_writer, tm_exit, tm_quiet,
                   tm_count_at_stop>>
    /\ UNCHANGED tmOthers

\* poll_timer_callback: if (timer_running) mod_timer.
CallbackRearm ==
    /\ tm_cb = "rearm"
    /\ tm_pending' = (tm_running \/ tm_pending)
    /\ tm_cb' = "idle"
    /\ UNCHANGED <<tm_running, tm_fire_count, tm_writer, tm_exit, tm_quiet,
                   tm_count_at_stop>>
    /\ UNCHANGED tmOthers

\* timer_demo_exit: stop_timer's timer_running = false.
ExitStopClear ==
    /\ tm_exit = "loaded"
    /\ tm_running' = FALSE
    /\ tm_exit' = "stop_del"
    /\ UNCHANGED <<tm_fire_count, tm_pending, tm_cb, tm_writer, tm_quiet,
                   tm_count_at_stop>>
    /\ UNCHANGED tmOthers

\* timer_demo_exit: stop_timer's del_timer_sync, and its return.
ExitStopDel ==
    /\ tm_exit = "stop_del"
    /\ tm_cb = "idle"
    /\ tm_pending' = FALSE
    /\ tm_exit' = "remove"
    /\ tm_quiet' = TRUE
    /\ tm_count_at_stop' = tm_fire_count
    /\ UNCHANGED <<tm_running, tm_fire_count, tm_cb, tm_writer>>
    /\ UNCHANGED tmOthers

\* timer_demo_exit: proc_remove, which waits for the calls in progress;
\* then the module is gone.
ExitRemove ==
    /\ tm_exit = "remove"
    /\ \A w \in Writers : tm_writer[w] = "idle"
    /\ tm_exit' = "unloaded"
    /\ UNCHANGED <<tm_running, tm_fire_count, tm_pending, tm_cb, tm_writer,
                   tm_quiet, tm_count_at_stop>>
    /\ UNCHANGED tmOthers

TmNext ==
    \/ \E w \in Writers : TmWrite(w)
    \/ \E w \in Writers : StartTest(w)
    \/ \E w \in Writers : StartSet(w)
    \/ \E w \in Writers : StartArm(w)
    \/ \E w \in Writers : StopClear(w)
    \/ \E w \in Writers : StopDel(w)
    \/ TimerExpire
    \/ CallbackCount
    \/ CallbackRearm
    \/ ExitStopClear
    \/ ExitStopDel
    \/ ExitRemove

(***************************************************************************)
(* part4/kthread-demo/kthread_demo.c.  wait_event_interruptible and its    *)
(* timeout variant are the kernel's loop: prepare_to_wait_event (task      *)
(* state TASK_INTERRUPTIBLE), test the condition, schedule.  A task is     *)
(* "running", "preparing" (TASK_INTERRUPTIBLE set, still on the processor, *)
(* before schedule), asleep "interruptible" or "uninterruptible", or       *)
(* "exited"; a task asleep takes no step until it is woken.                *)
(***************************************************************************)
Threads == {"poll", "event"}

\* The number of events triggered and of one-second timeouts in a run.
MaxEvents == 2
MaxTimeouts == 2

\* After kthread_demo_init: both threads created and woken, neither has
\* run yet.
KtInit ==
    /\ kt_event_pending = FALSE
    /\ kt_poll_count = 0
    /\ kt_event_count = 0
    /\ kt_sensor = 25
    /\ kt_pc = [t \in Threads |-> "entry"]
    /\ kt_state = [t \in Threads |-> "running"]
    /\ kt_should_stop = [t \in Threads |-> FALSE]
    /\ kt_time_left = [t \in Threads |-> FALSE]
    /\ kt_exit = "loaded"
    /\ kt_triggered = 0
    /\ kt_timeouts = 0

\* A thread t that is at position pc and on a processor.
At(t, pc) == kt_pc[t] = pc /\ kt_state[t] = "running"

\* A mutant of WakeUp: the task is left asleep.
WakeUp_Not(state) == state

\* try_to_wake_up on a task in the given state: a sleeping task runs.
WakeUp(state) ==
    IF state \in {"preparing", "interruptible", "uninterruptible"}
    THEN "running"
    ELSE state

\* The kernel's kthread(): the thread function is not called when the
\* thread was stopped before it first ran.
KtEntry(t) ==
    /\ At(t, "entry")
    /\ IF kt_should_stop[t]
       THEN /\ kt_pc' = [kt_pc EXCEPT ![t] = "returned"]
            /\ kt_state' = [kt_state EXCEPT ![t] = "exited"]
       ELSE /\ kt_pc' = [kt_pc EXCEPT ![t] = "loop"]
            /\ UNCHANGED kt_state
    /\ UNCHANGED <<kt_event_pending, kt_poll_count, kt_event_count, kt_sensor,
                   kt_should_stop, kt_time_left, kt_exit, kt_triggered,
                   kt_timeouts>>
    /\ UNCHANGED ktOthers

\* while (!kthread_should_stop()): the thread function returns and the
\* thread exits, or the loop body is entered.
KtLoop(t) ==
    /\ At(t, "loop")
    /\ IF kt_should_stop[t]
       THEN /\ kt_pc' = [kt_pc EXCEPT ![t] = "returned"]
            /\ kt_state' = [kt_state EXCEPT ![t] = "exited"]
       ELSE /\ kt_pc' = [kt_pc EXCEPT
                           ![t] = IF t = "poll" THEN "read" ELSE "wait"]
            /\ UNCHANGED kt_state
    /\ UNCHANGED <<kt_event_pending, kt_poll_count, kt_event_count, kt_sensor,
                   kt_should_stop, kt_time_left, kt_exit, kt_triggered,
                   kt_timeouts>>
    /\ UNCHANGED ktOthers

\* poll_thread_fn: the sensor is read and counted; the timeout of the wait
\* that follows is HZ.
PollRead ==
    /\ At("poll", "read")
    /\ kt_sensor' = 20 + (kt_poll_count % 15)
    /\ kt_poll_count' = kt_poll_count + 1
    /\ kt_time_left' = [kt_time_left EXCEPT !["poll"] = TRUE]
    /\ kt_pc' = [kt_pc EXCEPT !["poll"] = "wait"]
    /\ UNCHANGED <<kt_event_pending, kt_event_count, kt_state,
                   kt_should_stop, kt_exit, kt_triggered, kt_timeouts>>
    /\ UNCHANGED ktOthers

\* The condition that ends thread t's wait: for the event thread
\* event_pending || kthread_should_stop(), for the poll thread
\* kthread_should_stop() or the timeout used up.
WaitOver(t) ==
    IF t = "event" THEN kt_event_pending \/ kt_should_stop[t]
    ELSE kt_should_stop[t] \/ ~kt_time_left[t]

\* The first test of the condition, before any sleep.
KtWait(t) ==
    /\ At(t, "wait")
    /\ kt_pc' = [kt_pc EXCEPT ![t] = IF WaitOver(t) THEN "woken"
                                      ELSE "prepare"]
    /\ UNCHANGED <<kt_event_pending, kt_poll_count, kt_event_count, kt_sensor,
                   kt_state, kt_should_stop, kt_time_left, kt_exit,
                   kt_triggered, kt_timeouts>>
    /\ UNCHANGED ktOthers

\* prepare_to_wait_event: the task is on event_wq, TASK_INTERRUPTIBLE.
KtPrepare(t) ==
    /\ kt_pc[t] = "prepare"
    /\ kt_state[t] = "running"
    /\ kt_state' = [kt_state EXCEPT ![t] = "preparing"]
    /\ kt_pc' = [kt_pc EXCEPT ![t] = "test"]
    /\ UNCHANGED <<kt_event_pending, kt_poll_count, kt_event_count, kt_sensor,
                   kt_should_stop, kt_time_left, kt_exit, kt_triggered,
                   kt_timeouts>>
    /\ UNCHANGED ktOthers

\* The test of the condition inside the wait loop: finish_wait when it
\* holds; otherwise schedule(), which sleeps unless the task was woken
\* since prepare_to_wait_event.
KtTest(t) ==
    /\ kt_pc[t] = "test"
    /\ kt_state[t] \in {"preparing", "running"}
    /\ IF WaitOver(t)
       THEN /\ kt_pc' = [kt_pc EXCEPT ![t] = "woken"]
            /\ kt_state' = [kt_state EXCEPT ![t] = "running"]
       ELSE /\ kt_pc' = [kt_pc EXCEPT ![t] = "prepare"]
            /\ kt_state' = [kt_state EXCEPT
                              ![t] = IF kt_state[t] = "preparing"
                                     THEN "interruptible" ELSE "running"]
    /\ UNCHANGED <<kt_event_pending, kt_poll_count, kt_event_count, kt_sensor,
                   kt_should_stop, kt_time_left, kt_exit, kt_triggered,
                   kt_timeouts>>
    /\ UNCHANGED ktOthers

\* After the wait: the poll thread goes round its loop; the event thread
\* breaks out when it is to stop and handles the event otherwise.
KtWoken(t) ==
    /\ At(t, "woken")
    /\ kt_pc' = [kt_pc EXCEPT
                   ![t] = IF t = "poll" THEN "loop"
                          ELSE IF kt_should_stop[t] THEN "break"
                          ELSE "handle"]
    /\ UNCHANGED <<kt_event_pending, kt_poll_count, kt_event_count, kt_sensor,
                   kt_state, kt_should_stop, kt_time_left, kt_exit,
                   kt_triggered, kt_timeouts>>
    /\ UNCHANGED ktOthers

\* event_thread_fn: break, then return 0.
EventBreak ==
    /\ At("event", "break")
    /\ kt_pc' = [kt_pc EXCEPT !["event"] = "returned"]
    /\ kt_state' = [kt_state EXCEPT !["event"] = "exited"]
    /\ UNCHANGED <<kt_event_pending, kt_poll_count, kt_event_count, kt_sensor,
                   kt_should_stop, kt_time_left, kt_exit, kt_triggered,
                   kt_timeouts>>
    /\ UNCHANGED ktOthers

\* event_thread_fn: the event is handled and msleep(10) begins.
EventHandle ==
    /\ At("event", "handle")
    /\ kt_event_pending' = FALSE
    /\ kt_event_count' = kt_event_count + 1
    /\ kt_time_left' = [kt_time_left EXCEPT !["event"] = TRUE]
    /\ kt_state' = [kt_state EXCEPT !["event"] = "uninterruptible"]
    /\ kt_pc' = [kt_pc EXCEPT !["event"] = "msleep"]
    /\ UNCHANGED <<kt_poll_count, kt_sensor, kt_should_stop, kt_exit,
                   kt_triggered, kt_timeouts>>
    /\ UNCHANGED ktOthers

\* msleep's loop: a task woken before the 10 ms are over sleeps again.
EventMsleep ==
    /\ At("event", "msleep")
    /\ IF kt_time_left["event"]
       THEN /\ kt_state' = [kt_state EXCEPT !["event"] = "uninterruptible"]
            /\ UNCHANGED kt_pc
       ELSE /\ kt_pc' = [kt_pc EXCEPT !["event"] = "loop"]
            /\ UNCHANGED kt_state
    /\ UNCHANGED <<kt_event_pending, kt_poll_count, kt_event_count, kt_sensor,
                   kt_should_stop, kt_time_left, kt_exit, kt_triggered,
                   kt_timeouts>>
    /\ UNCHANGED ktOthers

\* The timer of msleep(10) expires.
MsleepExpire ==
    /\ kt_pc["event"] = "msleep"
    /\ kt_state["event"] = "uninterruptible"
    /\ kt_time_left["event"]
    /\ kt_time_left' = [kt_time_left EXCEPT !["event"] = FALSE]
    /\ kt_state' = [kt_state EXCEPT !["event"] = WakeUp(kt_state["event"])]
    /\ UNCHANGED <<kt_event_pending, kt_poll_count, kt_event_count, kt_sensor,
                   kt_pc, kt_should_stop, kt_exit, kt_triggered, kt_timeouts>>
    /\ UNCHANGED ktOthers

\* The one-second timeout expires while the poll thread is asleep.
PollTimeout ==
    /\ kt_pc["poll"] = "prepare"
    /\ kt_state["poll"] = "interruptible"
    /\ kt_time_left["poll"]
    /\ kt_timeouts < MaxTimeouts
    /\ kt_timeouts' = kt_timeouts + 1
    /\ kt_time_left' = [kt_time_left EXCEPT !["poll"] = FALSE]
    /\ kt_state' = [kt_state EXCEPT !["poll"] = WakeUp(kt_state["poll"])]
    /\ UNCHANGED <<kt_event_pending, kt_poll_count, kt_event_count, kt_sensor,
                   kt_pc, kt_should_stop, kt_exit, kt_triggered>>
    /\ UNCHANGED ktOthers

\* stats_write of "event": trigger_event sets event_pending and wakes the
\* interruptible sleepers of event_wq.
trigger_event ==
    /\ kt_exit # "unloaded"
    /\ kt_triggered < MaxEvents
    /\ kt_triggered' = kt_triggered + 1
    /\ kt_event_pending' = TRUE
    /\ kt_state' = [t \in Threads |->
                      IF kt_state[t] \in {"preparing", "interruptible"}
                      THEN "running" ELSE kt_state[t]]
    /\ UNCHANGED <<kt_poll_count, kt_event_count, kt_sensor, kt_pc,
                   kt_should_stop, kt_time_left, kt_exit, kt_timeouts>>
    /\ UNCHANGED ktOthers

\* kthread_stop(t): the should-stop flag is set and the task woken.
KthreadStop(t) ==
    /\ kt_should_stop' = [kt_should_stop EXCEPT ![t] = TRUE]
    /\ kt_state' = [kt_state EXCEPT ![t] = WakeUp(kt_state[t])]
    /\ UNCHANGED <<kt_event_pending, kt_poll_count, kt_event_count, kt_sensor,
                   kt_pc, kt_time_left, kt_triggered, kt_timeouts>>
    /\ UNCHANGED ktOthers

\* kthread_demo_exit: kthread_stop(event_thread) is called.
ExitStopEvent ==
    /\ kt_exit = "loaded"
    /\ KthreadStop("event")
    /\ kt_exit' = "event_stopping"

\* kthread_stop(event_thread) returns once the thread has exited;
\* kthread_stop(poll_thread) is called.
ExitStopPoll ==
    /\ kt_exit = "event_stopping"
    /\ kt_state["event"] = "exited"
    /\ KthreadStop("poll")
    /\ kt_exit' = "poll_stopping"

\* kthread_stop(poll_thread) returns once the thread has exited; then
\* proc_remove, and the module is gone.
ExitProcRemove ==
    /\ kt_exit = "poll_stopping"
    /\ kt_state["poll"] = "exited"
    /\ kt_exit' = "unloaded"
    /\ UNCHANGED <<kt_event_pending, kt_poll_count, kt_event_count, kt_sensor,
                   kt_pc, kt_state, kt_should_stop, kt_time_left,
                   kt_triggered, kt_timeouts>>
    /\ UNCHANGED ktOthers

\* The steps of thread t.
KtThread(t) ==
    \/ KtEntry(t)
    \/ KtLoop(t)
    \/ KtWait(t)
    \/ KtPrepare(t)
    \/ KtTest(t)
    \/ KtWoken(t)
    \/ (t = "poll" /\ PollRead)
    \/ (t = "event" /\ (EventBreak \/ EventHandle \/ EventMsleep))

\* The steps of kthread_demo_exit.
KtExit == ExitStopEvent \/ ExitStopPoll \/ ExitProcRemove

KtNext ==
    \/ \E t \in Threads : KtEntry(t)
    \/ \E t \in Threads : KtLoop(t)
    \/ \E t \in Threads : KtWait(t)
    \/ \E t \in Threads : KtPrepare(t)
    \/ \E t \in Threads : KtTest(t)
    \/ \E t \in Threads : KtWoken(t)
    \/ PollRead
    \/ EventBreak
    \/ EventHandle
    \/ EventMsleep
    \/ MsleepExpire
    \/ PollTimeout
    \/ trigger_event
    \/ ExitStopEvent
    \/ ExitStopPoll
    \/ ExitProcRemove

(***************************************************************************)
(* part16/pm-driver/pm_demo.c.  The sysfs attributes are read and written  *)
(* by user processes, which are frozen during system sleep; the attributes *)
(* are removed, and the calls in progress waited for, before               *)
(* pm_demo_remove runs.                                                    *)
(***************************************************************************)
EACCES == 13

\* The processes reading and writing the attributes.
PmCallers == 1..2

\* The number of hardware accesses in a run.
MaxAccess == 2

\* The values written to the data attribute.
PmValues == {0, 7}

PmIdle == [pc |-> "idle", op |-> "none", value |-> 0, gets |-> 0,
           puts |-> 0, ret |-> 0]

NoTouch == [by |-> "none", field |-> "none", powered |-> TRUE, usage |-> 0]

\* After pm_demo_probe.
PmInit ==
    /\ pm_powered = TRUE
    /\ pm_access_count = 0
    /\ pm_saved_data = 42
    /\ pm_usage = 0
    /\ pm_status = "active"
    /\ pm_enabled = TRUE
    /\ pm_sleep = "awake"
    /\ pm_bound = TRUE
    /\ pm_caller = [c \in PmCallers |-> PmIdle]
    /\ pm_touch = NoTouch

\* A touch of a field by a function, as pm_touch records it.
Touch(by, field) ==
    [by |-> by, field |-> field, powered |-> pm_powered, usage |-> pm_usage]

\* data_show or data_store is entered; data_store returns at once when
\* kstrtou32 fails.
PmCall(c) ==
    /\ pm_bound
    /\ pm_sleep = "awake"
    /\ pm_caller[c].pc = "idle"
    /\ pm_access_count < MaxAccess
    /\ \/ pm_caller' = [pm_caller EXCEPT
                          ![c] = [PmIdle EXCEPT !.pc = "get", !.op = "read"]]
       \/ \E v \in PmValues :
             pm_caller' = [pm_caller EXCEPT
                             ![c] = [PmIdle EXCEPT !.pc = "get",
                                                   !.op = "write",
                                                   !.value = v]]
       \/ pm_caller' = [pm_caller EXCEPT
                          ![c] = [PmIdle EXCEPT !.op = "write",
                                                !.ret = -EINVAL]]
    /\ UNCHANGED <<pm_powered, pm_access_count, pm_saved_data, pm_usage,
                   pm_status, pm_enabled, pm_sleep, pm_bound, pm_touch>>
    /\ UNCHANGED pmOthers

\* Left suspended by the resume.
ResumedPower_Skip(status, powered) == powered

\* powered after the runtime resume that pm_runtime_get_sync makes:
\* pm_demo_runtime_resume runs when the device was suspended.
ResumedPower(status, powered) ==
    IF status = "suspended" THEN TRUE ELSE powered

\* pm_runtime_get_sync: the usage count is incremented; when runtime PM is
\* disabled the call fails with -EACCES, and the caller drops the count
\* with pm_runtime_put_noidle and returns; otherwise a suspended device is
\* resumed by pm_demo_runtime_resume.
HwGet(c) ==
    /\ pm_caller[c].pc = "get"
    /\ IF pm_enabled
       THEN /\ pm_usage' = pm_usage + 1
            /\ pm_powered' = ResumedPower(pm_status, pm_powered)
            /\ pm_status' = "active"
            /\ pm_caller' = [pm_caller EXCEPT ![c].pc = "access",
                                              ![c].gets = @ + 1]
       ELSE /\ pm_usage' = (pm_usage + 1) - 1
            /\ pm_caller' = [pm_caller EXCEPT ![c].pc = "idle",
                                              ![c].gets = @ + 1,
                                              ![c].puts = @ + 1,
                                              ![c].ret = -EACCES]
            /\ UNCHANGED <<pm_powered, pm_status>>
    /\ UNCHANGED <<pm_access_count, pm_saved_data, pm_enabled, pm_sleep,
                   pm_bound, pm_touch>>
    /\ UNCHANGED pmOthers

\* The access: pm_demo_hw_write stores the value; both count the access.
HwAccess(c) ==
    /\ pm_caller[c].pc = "access"
    /\ pm_access_count' = pm_access_count + 1
    /\ IF pm_caller[c].op = "write"
       THEN /\ pm_saved_data' = pm_caller[c].value
            /\ pm_touch' = Touch("pm_demo_hw_write", "saved_data")
       ELSE /\ UNCHANGED pm_saved_data
            /\ pm_touch' = Touch("pm_demo_hw_read", "access_count")
    /\ pm_caller' = [pm_caller EXCEPT ![c].pc = "put"]
    /\ UNCHANGED <<pm_powered, pm_usage, pm_status, pm_enabled, pm_sleep,
                   pm_bound>>
    /\ UNCHANGED pmOthers

\* pm_runtime_mark_last_busy and pm_runtime_put_autosuspend.
HwPut(c) ==
    /\ pm_caller[c].pc = "put"
    /\ pm_usage' = pm_usage - 1
    /\ pm_caller' = [pm_caller EXCEPT
                       ![c].pc = IF pm_caller[c].op = "read" THEN "return"
                                 ELSE "idle",
                       ![c].puts = @ + 1]
    /\ UNCHANGED <<pm_powered, pm_access_count, pm_saved_data, pm_status,
                   pm_enabled, pm_sleep, pm_bound, pm_touch>>
    /\ UNCHANGED pmOthers

\* pm_demo_hw_read: return pmdev->saved_data, after the put.
HwReadReturn(c) ==
    /\ pm_caller[c].pc = "return"
    /\ pm_caller' = [pm_caller EXCEPT ![c].pc = "idle",
                                      ![c].ret = pm_saved_data]
    /\ pm_touch' = Touch("pm_demo_hw_read return", "saved_data")
    /\ UNCHANGED <<pm_powered, pm_access_count, pm_saved_data, pm_usage,
                   pm_status, pm_enabled, pm_sleep, pm_bound>>
    /\ UNCHANGED pmOthers

\* status_show: reads powered and access_count, with no runtime-PM call.
status_show ==
    /\ pm_bound
    /\ pm_sleep = "awake"
    /\ pm_touch' = Touch("status_show", "access_count")
    /\ UNCHANGED <<pm_powered, pm_access_count, pm_saved_data, pm_usage,
                   pm_status, pm_enabled, pm_sleep, pm_bound, pm_caller>>
    /\ UNCHANGED pmOthers

\* The autosuspend delay has passed with the usage count at 0:
\* pm_demo_runtime_suspend.
pm_demo_runtime_suspend ==
    /\ pm_enabled
    /\ pm_sleep = "awake"
    /\ pm_usage = 0
    /\ pm_status = "active"
    /\ pm_powered' = FALSE
    /\ pm_status' = "suspended"
    /\ UNCHANGED <<pm_access_count, pm_saved_data, pm_usage, pm_enabled,
                   pm_sleep, pm_bound, pm_caller, pm_touch>>
    /\ UNCHANGED pmOthers

\* System suspend, with every caller back in user space: pm_demo_suspend
\* prints saved_data.
pm_demo_suspend ==
    /\ pm_bound
    /\ pm_sleep = "awake"
    /\ \A c \in PmCallers : pm_caller[c].pc = "idle"
    /\ pm_sleep' = "asleep"
    /\ pm_touch' = Touch("pm_demo_suspend", "saved_data")
    /\ UNCHANGED <<pm_powered, pm_access_count, pm_saved_data, pm_usage,
                   pm_status, pm_enabled, pm_bound, pm_caller>>
    /\ UNCHANGED pmOthers

\* System resume: pm_demo_resume prints saved_data.
pm_demo_resume ==
    /\ pm_sleep = "asleep"
    /\ pm_sleep' = "awake"
    /\ pm_touch' = Touch("pm_demo_resume", "saved_data")
    /\ UNCHANGED <<pm_powered, pm_access_count, pm_saved_data, pm_usage,
                   pm_status, pm_enabled, pm_bound, pm_caller>>
    /\ UNCHANGED pmOthers

\* The driver is unbound: pm_demo_remove.
pm_demo_remove ==
    /\ pm_bound
    /\ pm_sleep = "awake"
    /\ \A c \in PmCallers : pm_caller[c].pc = "idle"
    /\ pm_bound' = FALSE
    /\ pm_enabled' = FALSE
    /\ UNCHANGED <<pm_powered, pm_access_count, pm_saved_data, pm_usage,
                   pm_status, pm_sleep, pm_caller, pm_touch>>
    /\ UNCHANGED pmOthers

PmNext ==
    \/ \E c \in PmCallers : PmCall(c)
    \/ \E c \in PmCallers : HwGet(c)
    \/ \E c \in PmCallers : HwAccess(c)
    \/ \E c \in PmCallers : HwPut(c)
    \/ \E c \in PmCallers : HwReadReturn(c)
    \/ status_show
    \/ pm_demo_runtime_suspend
    \/ pm_demo_suspend
    \/ pm_demo_resume
    \/ pm_demo_remove

(***************************************************************************)
(* part11/rtc-driver/rtc_demo.c.  Times are in seconds, the clock in       *)
(* jiffies, HZ to the second; struct rtc_time is taken as the second count *)
(* it converts to and from.  A timer that is due runs before the clock     *)
(* moves on.                                                               *)
(***************************************************************************)

\* How far the clock runs, in jiffies.
MaxClock == 7

\* The times given to set_time and set_alarm, in seconds.
RtcTimes == 1..3

\* demo_rtc_get_time64 at a given clock value.
TimeAt(clock) == rtc_base_time + ((clock - rtc_base_ktime) \div HZ)

demo_rtc_get_time64 == TimeAt(rtc_clock)

NoAlarmTimer == [pending |-> FALSE, expires |-> 0]

\* After demo_rtc_probe; set_time, at any jiffy, moves the RTC's seconds
\* off the clock's.
RtcInit ==
    /\ rtc_clock = HZ
    /\ rtc_base_ktime = rtc_clock
    /\ rtc_base_time = rtc_clock \div HZ
    /\ rtc_alarm_time = 0
    /\ rtc_alarm_enabled = FALSE
    /\ rtc_alarm_pending = FALSE
    /\ rtc_alarm_timer = NoAlarmTimer
    /\ rtc_tm = rtc_base_time
    /\ rtc_set_ahead = FALSE
    /\ rtc_fired_at = -1

AlarmDue == rtc_alarm_timer.pending /\ rtc_clock >= rtc_alarm_timer.expires

\* A jiffy passes.
RtcTick ==
    /\ rtc_clock < MaxClock
    /\ ~AlarmDue
    /\ rtc_clock' = rtc_clock + 1
    /\ UNCHANGED <<rtc_base_time, rtc_base_ktime, rtc_alarm_time,
                   rtc_alarm_enabled, rtc_alarm_pending, rtc_alarm_timer,
                   rtc_tm, rtc_set_ahead, rtc_fired_at>>
    /\ UNCHANGED rtcOthers

demo_rtc_read_time ==
    /\ rtc_tm' = demo_rtc_get_time64
    /\ UNCHANGED <<rtc_base_time, rtc_base_ktime, rtc_alarm_time,
                   rtc_alarm_enabled, rtc_alarm_pending, rtc_alarm_timer,
                   rtc_clock, rtc_set_ahead, rtc_fired_at>>
    /\ UNCHANGED rtcOthers

demo_rtc_set_time(new_time) ==
    /\ rtc_base_time' = new_time
    /\ rtc_base_ktime' = rtc_clock
    /\ UNCHANGED <<rtc_alarm_time, rtc_alarm_enabled, rtc_alarm_pending,
                   rtc_alarm_timer, rtc_clock, rtc_tm, rtc_set_ahead,
                   rtc_fired_at>>
    /\ UNCHANGED rtcOthers

\* The alarm timer expires.
demo_rtc_alarm_callback ==
    /\ AlarmDue
    /\ rtc_alarm_timer' = NoAlarmTimer
    /\ rtc_alarm_pending' = TRUE
    /\ rtc_fired_at' = demo_rtc_get_time64
    /\ UNCHANGED <<rtc_base_time, rtc_base_ktime, rtc_alarm_time,
                   rtc_alarm_enabled, rtc_clock, rtc_tm, rtc_set_ahead>>
    /\ UNCHANGED rtcOthers

\* The timer armed for an alarm time later than the current time:
\* mod_timer(jiffies + (alarm_time - current_time) * HZ).
ArmedTimer(alarm_time, current_time) ==
    [pending |-> TRUE,
     expires |-> rtc_clock + (alarm_time - current_time) * HZ]

demo_rtc_set_alarm(alarm_time, enabled) ==
    /\ rtc_alarm_pending' = FALSE
    /\ rtc_fired_at' = -1
    /\ rtc_alarm_time' = alarm_time
    /\ rtc_alarm_enabled' = enabled
    /\ IF enabled /\ alarm_time > demo_rtc_get_time64
       THEN /\ rtc_alarm_timer' = ArmedTimer(alarm_time, demo_rtc_get_time64)
            /\ rtc_set_ahead' = TRUE
       ELSE /\ rtc_alarm_timer' = NoAlarmTimer
            /\ rtc_set_ahead' = FALSE
    /\ UNCHANGED <<rtc_base_time, rtc_base_ktime, rtc_clock, rtc_tm>>
    /\ UNCHANGED rtcOthers

demo_rtc_alarm_irq_enable(enabled) ==
    /\ IF enabled /\ ~rtc_alarm_enabled
       THEN /\ rtc_alarm_timer' =
                 IF rtc_alarm_time > demo_rtc_get_time64
                 THEN ArmedTimer(rtc_alarm_time, demo_rtc_get_time64)
                 ELSE rtc_alarm_timer
            /\ UNCHANGED rtc_set_ahead
       ELSE IF ~enabled
       THEN /\ rtc_alarm_timer' = NoAlarmTimer
            /\ rtc_set_ahead' = FALSE
       ELSE UNCHANGED <<rtc_alarm_timer, rtc_set_ahead>>
    /\ rtc_alarm_enabled' = enabled
    /\ UNCHANGED <<rtc_base_time, rtc_base_ktime, rtc_alarm_time,
                   rtc_alarm_pending, rtc_clock, rtc_tm, rtc_fired_at>>
    /\ UNCHANGED rtcOthers

RtcSetTime == \E t \in RtcTimes : demo_rtc_set_time(t)

RtcSetAlarm == \E t \in RtcTimes, enabled \in BOOLEAN :
                  demo_rtc_set_alarm(t, enabled)

RtcAlarmIrqEnable == \E enabled \in BOOLEAN :
                        demo_rtc_alarm_irq_enable(enabled)

RtcNext ==
    \/ RtcTick
    \/ demo_rtc_read_time
    \/ RtcSetTime
    \/ demo_rtc_alarm_callback
    \/ RtcSetAlarm
    \/ RtcAlarmIrqEnable

(***************************************************************************)
(* part9/spi-device/spi_flash_demo.c, with a page of FLASH_PAGE_SIZE bytes *)
(* and a flash of FlashPages pages.  A write comes from demo_flash_fwrite, *)
(* which holds flash->lock for its length.                                 *)
(***************************************************************************)
EIO == 5

FLASH_PAGE_SIZE == 3

FlashPages == 2

FLASH_SIZE == FlashPages * FLASH_PAGE_SIZE

\* The number of writes in a run.
MaxFlashWrites == 1

\* Byte i of the caller's buffer.
Buf(i) == i % 251

Erased == 255

\* After demo_flash_probe.
FlInit ==
    /\ fl_buffer = [a \in 0..(FLASH_SIZE - 1) |-> Erased]
    /\ fl_addr = 0
    /\ fl_len = 0
    /\ fl_written = 0
    /\ fl_pc = "idle"
    /\ fl_ret = 0
    /\ fl_calls = 0
    /\ fl_before = fl_buffer
    /\ fl_chunks = <<>>

\* demo_flash_fwrite up to its call of demo_flash_write: a position past
\* the end is refused, and the count is cut to the end of the flash.
demo_flash_fwrite(ppos, count) ==
    /\ fl_pc = "idle"
    /\ fl_calls < MaxFlashWrites
    /\ fl_calls' = fl_calls + 1
    /\ fl_before' = fl_buffer
    /\ fl_chunks' = <<>>
    /\ fl_written' = 0
    /\ IF ppos >= FLASH_SIZE
       THEN /\ fl_ret' = -ENOSPC
            /\ UNCHANGED <<fl_addr, fl_len, fl_pc>>
       ELSE /\ fl_addr' = ppos
            /\ fl_len' = IF ppos + count > FLASH_SIZE THEN FLASH_SIZE - ppos
                         ELSE count
            /\ fl_pc' = "write"
            /\ fl_ret' = 0
    /\ UNCHANGED fl_buffer
    /\ UNCHANGED flOthers

FlashCall == \E ppos \in 0..FLASH_SIZE, count \in 0..(FLASH_SIZE + 1) :
                demo_flash_fwrite(ppos, count)

\* The whole of what is left, up to a page, wherever it starts.
PageSize_NoOffset(addr, written, len) ==
    IF FLASH_PAGE_SIZE < len - written THEN FLASH_PAGE_SIZE
    ELSE len - written

\* page_size of demo_flash_write: to the end of the page, or what is left.
PageSize(addr, written, len) ==
    LET page_offset == (addr + written) % FLASH_PAGE_SIZE
    IN  IF FLASH_PAGE_SIZE - page_offset < len - written
        THEN FLASH_PAGE_SIZE - page_offset
        ELSE len - written

\* The buffer after memcpy(flash->buffer + addr, buf + written, len).
Programmed(buffer, addr, written, len) ==
    [a \in DOMAIN buffer |->
       IF a >= addr /\ a < addr + len THEN Buf(written + (a - addr))
       ELSE buffer[a]]

\* demo_flash_program_page: the two range tests, then write enable and the
\* transfer, either of which may fail, then the copy, then the wait for
\* the status register, which may run out of time.
demo_flash_program_page(addr, written, len, failure) ==
    IF len > FLASH_PAGE_SIZE \/ addr + len > FLASH_SIZE
    THEN /\ fl_ret' = -EINVAL
         /\ UNCHANGED <<fl_buffer, fl_chunks>>
    ELSE IF failure = "spi"
    THEN /\ fl_ret' = -EIO
         /\ UNCHANGED <<fl_buffer, fl_chunks>>
    ELSE /\ fl_buffer' = Programmed(fl_buffer, addr, written, len)
         /\ fl_chunks' = Append(fl_chunks, <<addr, len>>)
         /\ fl_ret' = IF failure = "busy" THEN -ETIMEDOUT ELSE 0

\* One turn of the loop of demo_flash_write.
FlashWritePage ==
    /\ fl_pc = "write"
    /\ fl_written < fl_len
    /\ LET page_size == PageSize(fl_addr, fl_written, fl_len)
       IN  /\ \E failure \in {"none", "spi", "busy"} :
                demo_flash_program_page(fl_addr + fl_written, fl_written,
                                        page_size, failure)
           /\ IF fl_ret' # 0
              THEN fl_pc' = "idle" /\ UNCHANGED fl_written
              ELSE fl_written' = fl_written + page_size /\ UNCHANGED fl_pc
    /\ UNCHANGED <<fl_addr, fl_len, fl_calls, fl_before>>
    /\ UNCHANGED flOthers

\* The loop ends: return 0.
FlashWriteReturn ==
    /\ fl_pc = "write"
    /\ fl_written >= fl_len
    /\ fl_pc' = "idle"
    /\ fl_ret' = 0
    /\ UNCHANGED <<fl_buffer, fl_addr, fl_len, fl_written, fl_calls,
                   fl_before, fl_chunks>>
    /\ UNCHANGED flOthers

FlNext ==
    \/ FlashCall
    \/ FlashWritePage
    \/ FlashWriteReturn

Init == IrqInit /\ RdInit /\ ModInit /\ IoInit /\ ScInit /\ KuInit /\
        UsbInit /\ VnetInit /\ WdInit /\ TmInit /\ KtInit /\ PmInit /\
        RtcInit /\ FlInit

SpecIrq == Init /\ [][IrqNext]_vars

SpecRamdisk == Init /\ [][RdNext]_vars

SpecModules == Init /\ [][ModNext]_vars

SpecIoctl == Init /\ [][IoNext]_vars

SpecChar == Init /\ [][ScNext]_vars

SpecKunit == Init /\ [][KuNext]_vars

SpecUsb == Init /\ [][UsbNext]_vars

SpecVnet == Init /\ [][VnetNext]_vars

SpecWd == Init /\ [][WdNext]_vars

SpecTm == Init /\ [][TmNext]_vars

SpecKt == Init /\ [][KtNext]_vars

SpecPm == Init /\ [][PmNext]_vars

SpecRtc == Init /\ [][RtcNext]_vars

SpecFl == Init /\ [][FlNext]_vars

\* Byte position of segment k (1-based) of the last request.
RdSegPos(k) == rd_req.sector * SECTOR_SIZE + SumLen(SubSeq(rd_req.lens, 1, k - 1))

\* Segments of the last request that reach beyond the device.
RdBadSegs == {k \in 1..Len(rd_req.lens) :
                RdSegPos(k) + rd_req.lens[k] > rd_size}

\* C3: ramdisk_queue_rq copies only at offsets in [0, dev->size); when a
\* segment reaches beyond the device the request ends with BLK_STS_IOERR
\* and nothing of that segment or of a later one is copied, while the
\* segments before it are copied in full.
C3_NoCopyBeyondDevice ==
    /\ rd_copied \subseteq 0..(rd_size - 1)
    /\ RdBadSegs # {} =>
         /\ rd_status = "BLK_STS_IOERR"
         /\ \A k \in RdBadSegs : \A o \in rd_copied : o < RdSegPos(k)
    /\ (rd_status = "BLK_STS_OK" /\ rd_req.lens # <<>>) =>
         /\ RdBadSegs = {}
         /\ rd_copied = RdSegPos(1)..(RdSegPos(1) + SumLen(rd_req.lens) - 1)

\* Witness of C3: a request whose first segment was copied and whose second
\* segment reached beyond the device.
C3_Witness ==
    /\ rd_status = "BLK_STS_IOERR"
    /\ rd_copied # {}
    /\ 2 \in RdBadSegs
    /\ 1 \notin RdBadSegs

\* C1: each firing of the simulation timer while running runs the handler
\* chain: demo_hardirq counts the interrupt and demo_thread_handler counts
\* its run and stores the sample.
C1_TimerRunsHandlerChain ==
    [][(trigger_simulated_irq /\ running)
         => /\ hardirq_count' = hardirq_count + 1
            /\ thread_count' = thread_count + 1
            /\ data_count' = Min(data_count + 1, IRQ_BUFFER_SIZE)]_vars

\* C2: every step that reads or writes data_buffer, data_head or data_count
\* is taken by the context that holds data_mutex.
C2_RingAccessUnderMutex ==
    [][/\ StatsShowDataCount => data_mutex = "stats_show"
       /\ DataShowRead => data_mutex = "data_show"
       /\ ControlResetRing => data_mutex = "control_write"]_vars

\* C4 as stated: no module's step changes the state of another module; in
\* particular loading or unloading one module changes no counter of another.
C4_NoCrossModuleEffect ==
    [][/\ MylibStep => UNCHANGED <<myuserVars, paramsVars>>
       /\ MyuserStep => UNCHANGED <<mylibVars, paramsVars>>
       /\ ParamsStep => UNCHANGED <<mylibVars, myuserVars>>]_vars

\* C4 as amended: the one exception is the export-symbol pair.  Loading
\* myuser adds max(iterations, 0) to mylib_counter and unloading it sets
\* mylib_counter to 0; apart from that no module's step changes the state
\* of another module.
C4_OnlyMyuserReachesMylib ==
    [][/\ MylibStep => UNCHANGED <<myuserVars, paramsVars>>
       /\ MyuserStep => UNCHANGED <<mylib_loaded, paramsVars>>
       /\ ParamsStep => UNCHANGED <<mylibVars, myuserVars>>
       /\ myuser_init =>
            mylib_counter' = mylib_counter
                               + (IF iterations' > 0 THEN iterations' ELSE 0)
       /\ myuser_exit => mylib_counter' = 0]_vars

\* Witness of C4: myuser has been loaded with a positive iteration count
\* while params is loaded with a changed parameter.
C4_Witness ==
    /\ myuser_loaded
    /\ iterations > 0
    /\ mylib_counter = iterations
    /\ params_loaded
    /\ validated_param # 50

\* C5: IOCTL_SET_CONFIG with speed outside [0, 1000] or mode outside [0, 3]
\* returns -EINVAL, leaves speed, mode and name as they were and records
\* -EINVAL in last_error; and speed stays in [0, 1000] and mode in [0, 3].
C5_SetConfigValidated ==
    /\ [](io_speed \in 0..1000 /\ io_mode \in 0..3)
    /\ [][\A arg \in BadConfigs :
            ioctl_ioctl(IOCTL_SET_CONFIG, arg)
              => /\ io_ret' = -EINVAL
                 /\ io_last_error' = -EINVAL
                 /\ UNCHANGED <<io_speed, io_mode, io_name>>]_vars

\* Witness of C5: a rejected configuration has left a configuration set
\* earlier in place.
C5_Witness ==
    /\ io_ret = -EINVAL
    /\ io_last_error = -EINVAL
    /\ io_speed = 1000
    /\ io_mode = 3

\* C6: an ioctl whose magic is not 'E' or whose number is above IOCTL_MAXNR
\* returns -ENOTTY and changes nothing in the device.
C6_BadCommandChangesNothing ==
    [][\A cmd \in {c \in UserCommands : c.type # 69 \/ c.nr > 5} :
         \A arg \in UserArgs(cmd) :
            ioctl_ioctl(cmd, arg)
              => /\ io_ret' = -ENOTTY
                 /\ UNCHANGED ioDevVars]_vars

\* Witness of C6: a command was refused with -ENOTTY and last_error does
\* not record it, after other calls have changed the device.
C6_Witness ==
    /\ io_ret = -ENOTTY
    /\ io_last_error = 0
    /\ io_ioctl_count > 0
    /\ io_speed = 1000

\* C7: IOCTL_XFER_CONFIG stores the caller's configuration in the device
\* and returns the configuration that was current before the call.
C7_XferStoresAndReturns ==
    [][\A arg \in XferConfigs \ BadConfigs :
         ioctl_ioctl(IOCTL_XFER_CONFIG, arg)
           => /\ io_speed' = arg.speed
              /\ io_mode' = arg.mode
              /\ CStr(io_name') = CStr(Strscpy(io_name, arg.name))
              /\ io_out'.kind = "config"
              /\ io_out'.speed = io_speed
              /\ io_out'.mode = io_mode
              /\ CStr(io_out'.name) = CStr(io_name)]_vars

\* C8: IOCTL_RESET zeroes the configuration, the value, the three counters
\* and last_error; and the statistics IOCTL_GET_STATS reports are the
\* numbers of reads, writes and checked ioctls made since then, the
\* IOCTL_GET_STATS call included.
C8_ResetAndStats ==
    [][/\ (\E arg \in UserArgs(IOCTL_RESET) : ioctl_ioctl(IOCTL_RESET, arg))
            => /\ io_speed' = 0 /\ io_mode' = 0 /\ io_value' = 0
               /\ CStr(io_name') = <<>>
               /\ io_read_count' = 0 /\ io_write_count' = 0
               /\ io_ioctl_count' = 0 /\ io_last_error' = 0
       /\ io_out'.kind = "stats"
            => /\ io_out'.stats.reads = called_reads'
               /\ io_out'.stats.writes = called_writes'
               /\ io_out'.stats.ioctls = called_ioctls'
               /\ called_ioctls' > 0]_vars

\* Witness of C8: statistics reported after a read, a write and another
\* ioctl.
C8_Witness ==
    /\ io_out.kind = "stats"
    /\ io_out.stats.reads = 1
    /\ io_out.stats.writes = 1
    /\ io_out.stats.ioctls = 2

\* C9: once a write of d at offset p has returned |d|, a read of |d| bytes
\* at p returns d while no later write overlaps it: a read returns, at
\* every offset it covers, the byte last written there, and returns all
\* the bytes asked for when all of them were written.  A read at or past
\* size returns 0, and no read returns a byte at an offset at or past size.
C9_ReadBackWhatWasWritten ==
    [][\A count \in 0..MaxWriteLen :
            schar_read(count, FALSE)
              => /\ sc_fpos >= sc_size => (sc_ret' = 0 /\ sc_out' = <<>>)
                 /\ sc_ret' = Len(sc_out')
                 /\ sc_out' # <<>> => sc_fpos + Len(sc_out') <= sc_size
                 /\ \A i \in 1..Len(sc_out') :
                       sc_written[sc_fpos + i] # -1
                         => sc_out'[i] = sc_written[sc_fpos + i]
                 /\ (\A i \in 1..count :
                        /\ sc_fpos + i <= SCHAR_BUFFER_SIZE
                        /\ sc_written[sc_fpos + i] # -1)
                      => sc_ret' = count]_vars

\* Witness of C9: two bytes written at offset 1 have been read back from
\* there, after a later write that did not overlap them.
C9_Witness ==
    /\ sc_out = <<2, 1>>
    /\ sc_fpos = 3
    /\ sc_written = <<1, 2, 1>>
    /\ sc_buffer = <<1, 2, 1>>

\* C10 as stated: with min <= max, example_clamp(val, min, max) lies in
\* [min, max], is val when val is in the range, min when val is below it
\* and max when val is above it; example_add(a, b) is a + b for all ints.
C10_ClampAndAdd ==
    /\ (ku_call[1] = "example_clamp" /\ ku_call[3] <= ku_call[4]) =>
          LET val == ku_call[2]
              min == ku_call[3]
              max == ku_call[4]
          IN /\ min <= ku_result /\ ku_result <= max
             /\ (min <= val /\ val <= max) => ku_result = val
             /\ val < min => ku_result = min
             /\ val > max => ku_result = max
    /\ ku_call[1] = "example_add" => ku_result = ku_call[2] + ku_call[3]

\* C10 as amended: example_clamp is as stated; example_add(a, b) is a + b
\* when a + b is in the range of int, and otherwise a + b less 2^INT_BITS
\* (above INT_MAX) or plus 2^INT_BITS (below INT_MIN).
C10_ClampAndWrappingAdd ==
    /\ (ku_call[1] = "example_clamp" /\ ku_call[3] <= ku_call[4]) =>
          LET val == ku_call[2]
              min == ku_call[3]
              max == ku_call[4]
          IN /\ min <= ku_result /\ ku_result <= max
             /\ (min <= val /\ val <= max) => ku_result = val
             /\ val < min => ku_result = min
             /\ val > max => ku_result = max
    /\ ku_call[1] = "example_add" =>
          LET sum == ku_call[2] + ku_call[3]
          IN /\ ku_result \in INT_MIN..INT_MAX
             /\ sum \in INT_MIN..INT_MAX => ku_result = sum
             /\ sum > INT_MAX => ku_result = sum - 2 ^ INT_BITS
             /\ sum < INT_MIN => ku_result = sum + 2 ^ INT_BITS

\* A sum beyond INT_MAX has been computed, after the suite has passed.
C10_Witness ==
    /\ ku_call = <<"example_add", INT_MAX, 5>>
    /\ ku_result = INT_MIN + 4
    /\ ku_tests.test_clamp = "passed"

\* C11: a read or write entered after usb_demo_disconnect has returned
\* gives -ENODEV, and no read or write, however it interleaves with
\* disconnect, touches an allocation disconnect has freed.
C11_NoAccessAfterDisconnect ==
    /\ usb_freed_access = {}
    /\ (usb_rw.after /\ usb_rw.pc = "idle") => usb_ret = -ENODEV

\* The softirq runs a scheduled NAPI instance: vnet_poll is entered and
\* runs to its end.
SpecVnetFair == SpecVnet /\ WF_vars(VnetPoll)

\* C12: the packets handed to the stack are, in order and each once, the
\* first of the packets queued on the ring, and every packet queued (its
\* copy succeeded and the ring was not full) is eventually handed over.
C12_LoopbackInOrder ==
    /\ [](/\ Len(vn_delivered) <= Len(vn_queued)
          /\ vn_delivered = SubSeq(vn_queued, 1, Len(vn_delivered))
          /\ vn_freed \o vn_queued \in Seq(1..vn_sent)
          /\ \A i \in 1..Len(vn_freed) : \A j \in 1..Len(vn_queued) :
                vn_freed[i] # vn_queued[j])
    /\ \A k \in 1..MaxPackets :
          (Len(vn_queued) >= k) ~> (Len(vn_delivered) >= k)

\* Witness of C12: three packets were transmitted; the first two were
\* queued and then delivered in order, the third found the ring full.
C12_Witness ==
    /\ vn_delivered = <<1, 2>>
    /\ vn_queued = <<1, 2>>
    /\ vn_freed = <<3>>
    /\ vn_rx_dropped = 1
    /\ vn_rx_packets = 2
    /\ vn_tx_packets = 3

C14_StoppedTimerStaysStopped ==
    tm_quiet => /\ ~tm_pending
                /\ tm_cb = "idle"
                /\ tm_fire_count = tm_count_at_stop

\* Every thread that can run does run, a timer of msleep expires, and
\* kthread_demo_exit, once called, goes on.
SpecKtFair ==
    /\ SpecKt
    /\ \A t \in Threads : WF_vars(KtThread(t))
    /\ WF_vars(MsleepExpire)
    /\ WF_vars(ExitStopPoll \/ ExitProcRemove)

\* C15: kthread_stop returns only when its thread has exited, and
\* kthread_demo_exit, once it has called kthread_stop, comes to its end
\* with both threads exited, wherever each thread was at that moment.
C15_ExitTerminates ==
    /\ [](/\ kt_exit \in {"poll_stopping", "unloaded"}
             => kt_state["event"] = "exited"
          /\ kt_exit = "unloaded" => kt_state["poll"] = "exited")
    /\ (kt_exit = "event_stopping") ~> (kt_state["event"] = "exited")
    /\ (kt_exit = "poll_stopping") ~> (kt_state["poll"] = "exited")
    /\ (kt_exit # "loaded") ~> (kt_exit = "unloaded")

\* Witness of C15: the module has gone after the event thread handled an
\* event and the poll thread polled more than once.
C15_Witness ==
    /\ kt_exit = "unloaded"
    /\ kt_event_count = 1
    /\ kt_poll_count = 2
    /\ kt_state = [t \in Threads |-> "exited"]

\* The number of callers between their pm_runtime_get_sync and their put.
PmHolders ==
    Cardinality({c \in PmCallers :
                   pm_caller[c].pc \in {"access", "put"}})

\* C16 as stated: a call of pm_demo_hw_read or pm_demo_hw_write that has
\* returned made one get and one put, the usage count is the number of
\* accesses in progress, and every touch of saved_data or access_count
\* was made with powered true.
C16_BalancedAndPowered ==
    /\ \A c \in PmCallers :
          /\ pm_caller[c].pc \in {"idle", "return"}
               => pm_caller[c].gets = pm_caller[c].puts
          /\ pm_caller[c].gets <= 1
    /\ pm_usage = PmHolders
    /\ pm_touch.powered

\* C16 as amended: the counting is as stated, and powered is true, with
\* the usage count above 0, at the touches pm_demo_hw_read and
\* pm_demo_hw_write make between their get and their put.
C16_BalancedAndPoweredWhileHeld ==
    /\ \A c \in PmCallers :
          /\ pm_caller[c].pc \in {"idle", "return"}
               => pm_caller[c].gets = pm_caller[c].puts
          /\ pm_caller[c].gets <= 1
    /\ pm_usage = PmHolders
    /\ pm_touch.by \in {"pm_demo_hw_read", "pm_demo_hw_write"}
         => pm_touch.powered /\ pm_touch.usage > 0

\* Witness of C16: a write resumed the suspended device and stored its
\* value while another access was in progress.
C16_Witness ==
    /\ pm_touch = [by |-> "pm_demo_hw_write", field |-> "saved_data",
                   powered |-> TRUE, usage |-> 2]
    /\ pm_saved_data = 7
    /\ pm_access_count = 2

FlashCovered ==
    {a \in 0..(FLASH_SIZE - 1) :
       \E k \in 1..Len(fl_chunks) :
          a >= fl_chunks[k][1] /\ a < fl_chunks[k][1] + fl_chunks[k][2]}

\* C18: the chunks demo_flash_write programs start at addr and follow one
\* another upwards without a gap; each has 1 to FLASH_PAGE_SIZE bytes
\* inside one page; together they stay inside [addr, addr + len); the
\* bytes they cover hold the caller's bytes and all others are as before;
\* and when the write has returned 0 they cover the whole of
\* [addr, addr + len).
C18_PagewiseWrite ==
    /\ \A k \in 1..Len(fl_chunks) :
          /\ fl_chunks[k][1] = IF k = 1 THEN fl_addr
                               ELSE fl_chunks[k-1][1] + fl_chunks[k-1][2]
          /\ fl_chunks[k][2] >= 1
          /\ fl_chunks[k][2] <= FLASH_PAGE_SIZE
          /\ fl_chunks[k][1] \div FLASH_PAGE_SIZE =
               (fl_chunks[k][1] + fl_chunks[k][2] - 1) \div FLASH_PAGE_SIZE
    /\ FlashCovered \subseteq {a \in 0..(FLASH_SIZE - 1) :
                                 a >= fl_addr /\ a < fl_addr + fl_len}
    /\ \A a \in 0..(FLASH_SIZE - 1) :
          fl_buffer[a] = IF a \in FlashCovered THEN Buf(a - fl_addr)
                         ELSE fl_before[a]
    /\ (fl_calls > 0 /\ fl_pc = "idle" /\ fl_ret = 0) =>
          \A i \in 0..(fl_len - 1) :
             /\ fl_addr + i \in FlashCovered
             /\ fl_buffer[fl_addr + i] = Buf(i)

\* Witness of C18: a write that begins in the middle of the first page and
\* ends in the second has returned 0 after two chunks.
C18_Witness ==
    /\ fl_pc = "idle"
    /\ fl_ret = 0
    /\ fl_addr = 1
    /\ fl_len = FLASH_PAGE_SIZE + 1
    /\ fl_chunks = <<<<1, FLASH_PAGE_SIZE - 1>>, <<FLASH_PAGE_SIZE, 2>>>>
    /\ fl_buffer[FLASH_PAGE_SIZE] = Buf(FLASH_PAGE_SIZE - 1)
====
